---- MODULE Spec2Model ----
(***************************************************************************)
(* Model of the RokoT BLE-MIDI library (rokot_ble_midi.c, the variant with *)
(* the Battery and Device Information services).  The state is the static  *)
(* struct ble_midi_state; every public function is one action, and the     *)
(* BTstack callbacks run inside rokot_ble_midi_task, which drives the run  *)
(* loop.  The transport (BTstack) is the environment: its answers to       *)
(* att_server_can_send_packet_now / att_server_notify and the events its   *)
(* run loop holds are inputs, and the calls an operation makes to it are   *)
(* recorded in `wire`.                                                     *)
(***************************************************************************)
EXTENDS Integers, Naturals, Sequences, FiniteSets, TLC

\* ------------------------------------------------------------------------
\* Bounds of the model
\* ------------------------------------------------------------------------
MaxHandle == 2          \* connection handles are 1..MaxHandle
MaxWriteLen == 6        \* inbound writes carry 0..MaxWriteLen bytes
MaxRawLen == 4          \* send_raw is called with 0..MaxRawLen bytes
MaxStrLen == 33         \* strings given to init and the profile setters have 0..MaxStrLen bytes
MaxOffset == 33         \* attribute reads start at offset 0..MaxOffset
MaxCapacity == 33       \* attribute reads have a buffer of 0..MaxCapacity bytes
MaxPending == 2         \* one call of rokot_ble_midi_task delivers a burst of 2..MaxPending events

\* ------------------------------------------------------------------------
\* Program constants
\* ------------------------------------------------------------------------
HCI_CON_HANDLE_INVALID == 65535
GATT_CLIENT_CHARACTERISTICS_CONFIGURATION_NOTIFICATION == 1
ROKOT_BLE_MIDI_CONN_INTERVAL_MIN == 6
ROKOT_BLE_MIDI_CONN_INTERVAL_MAX == 12

ROKOT_BLE_MIDI_DISCONNECTED == 0
ROKOT_BLE_MIDI_CONNECTED == 1
ROKOT_BLE_MIDI_READY == 2

MIDI_NOTE_OFF == 128
MIDI_NOTE_ON == 144
MIDI_CONTROL_CHANGE == 176
MIDI_PROGRAM_CHANGE == 192
MIDI_CHANNEL_PRESSURE == 208
MIDI_PITCH_BEND == 224

\* advertising data types and flags
APP_AD_FLAGS == 6
BLUETOOTH_DATA_TYPE_FLAGS == 1
BLUETOOTH_DATA_TYPE_COMPLETE_LIST_OF_128_BIT_SERVICE_CLASS_UUIDS == 7
BLUETOOTH_DATA_TYPE_COMPLETE_LOCAL_NAME == 9
\* sizes of the character arrays of ble_midi_state and of scan_resp_data
DEVICE_NAME_SIZE == 32
MANUFACTURER_SIZE == 32
FIRMWARE_VERSION_SIZE == 16
SCAN_RESP_DATA_SIZE == 32
PACKET_SIZE == 32

\* ------------------------------------------------------------------------
\* Input domains
\* ------------------------------------------------------------------------
Handles == 1..MaxHandle
\* negotiated connection intervals, in 1.25 ms units
Intervals == {ROKOT_BLE_MIDI_CONN_INTERVAL_MIN, ROKOT_BLE_MIDI_CONN_INTERVAL_MAX}
Callbacks == {"cb1", "cb2"}
NULL == "NULL"

\* uint8 arguments used by the state-machine specification
Channels == {31}
DataBytes == {60, 228}
PitchBends == {-8192, 0, 8191}
BatteryLevels == {0, 100, 150}
\* inbound writes: the first 0..MaxWriteLen bytes of these packets (a Note On
\* with the library's own prefix, one with an unmarked prefix, one with
\* different MIDI bytes)
InboundPatterns == {<<128, 128, 144, 60, 100, 145, 61, 101>>,
                    <<5, 60, 144, 60, 100, 145, 61, 101>>,
                    <<128, 128, 176, 7, 127, 0, 0, 0>>}
\* raw sends: the first 0..MaxRawLen bytes of these messages
RawPatterns == {<<144, 60, 100, 1, 2, 3>>, <<248, 128, 255, 4, 5, 6>>}
\* 16-bit CCCD values, as the two little-endian bytes of the write
CccdBuffers == {<<0, 0>>, <<1, 0>>, <<2, 0>>, <<3, 0>>, <<1, 1>>}
\* the transport's answers to att_server_can_send_packet_now and then to
\* att_server_notify (0 is success, anything else a BTstack error)
TransportAnswers == {<<FALSE, 0>>, <<TRUE, 0>>, <<TRUE, 87>>}

Prefixes(P, n) == {SubSeq(p, 1, k) : p \in P, k \in 0..n}

\* C strings are the sequences of their non-zero bytes; Str(n) is the string
\* of n different letters "ABC..."
Str(n) == [i \in 1..n |-> 64 + i]
Strings == {Str(n) : n \in 0..MaxStrLen}
\* "RokoT" and "1.0.0", the defaults of the profile strings
ROKOT_BLE_MIDI_MANUFACTURER == <<82, 111, 107, 111, 84>>
ROKOT_BLE_MIDI_FIRMWARE_VERSION == <<49, 46, 48, 46, 48>>
\* "RokoT MIDI", the device name of the repository's example
DEVICE_NAME == <<82, 111, 107, 111, 84, 32, 77, 73, 68, 73>>
DeviceNames == {DEVICE_NAME}

\* attribute handles the write callback distinguishes
AttHandles == {"BATTERY_CCCD", "MIDI_CCCD", "MIDI_VALUE", "OTHER"}

\* ------------------------------------------------------------------------
\* C integer arithmetic
\* ------------------------------------------------------------------------
RECURSIVE BitAnd(_, _, _)
BitAnd(a, b, n) ==
  IF n = 0 THEN 0
  ELSE (a % 2) * (b % 2) + 2 * BitAnd(a \div 2, b \div 2, n - 1)

RECURSIVE BitOr(_, _, _)
BitOr(a, b, n) ==
  IF n = 0 THEN 0
  ELSE (IF a % 2 = 1 \/ b % 2 = 1 THEN 1 ELSE 0) + 2 * BitOr(a \div 2, b \div 2, n - 1)

U8(x) == x % 256
U16(x) == x % 65536
little_endian_read_16(buffer, pos) == buffer[pos + 1] + 256 * buffer[pos + 2]

\* ------------------------------------------------------------------------
\* C strings and arrays (an array is the sequence of its bytes, element i of
\* the array being element i + 1 of the sequence)
\* ------------------------------------------------------------------------
Zeros(n) == [i \in 1..n |-> 0]

\* a character array of the given size initialized with a string literal
CharArray(literal, size) ==
  [i \in 1..size |-> IF i <= Len(literal) THEN literal[i] ELSE 0]

\* strncpy(dst, src, n): the first n bytes of dst become the string src,
\* cut at n bytes or padded with zero bytes up to n
strncpy(dst, src, n) ==
  [i \in 1..Len(dst) |-> IF i <= n THEN (IF i <= Len(src) THEN src[i] ELSE 0) ELSE dst[i]]

\* strlen of the string held in an array (every array of ble_midi_state
\* holds a zero byte: the setters write one into its last element)
strlen(a) ==
  IF \E i \in 1..Len(a) : a[i] = 0
  THEN (CHOOSE i \in 1..Len(a) : a[i] = 0 /\ \A j \in 1..(i - 1) : a[j] # 0) - 1
  ELSE Len(a)

\* memcpy(&dst[pos], src, n)
memcpy(dst, pos, src, n) ==
  [i \in 1..Len(dst) |-> IF i > pos /\ i <= pos + n THEN src[i - pos] ELSE dst[i]]

\* ------------------------------------------------------------------------
\* State: the fields of ble_midi_state, and what the last operation did
\* ------------------------------------------------------------------------
VARIABLES
  con_handle,
  notifications_enabled,
  battery_notifications_enabled,
  connection_interval,
  rx_callback,
  battery_level,
  initialized,
  device_name,
  manufacturer,
  firmware_version,
  adv_data,
  scan_resp_data,
  scan_resp_data_len,
  op,        \* the operation that ran last
  arg,       \* its input
  ret,       \* its return value (0 for a void function)
  wire,      \* the calls it made to the transport, in order
  cbcalls,   \* the receive-callback invocations it made, in order
  answers,   \* what the handlers it ran returned to the stack, in order
  armed,     \* history: a MIDI CCCD-enable write with no disconnect, deinit or MIDI CCCD-disable since
  scen       \* history: progress through link-complete, CCCD-enable, CCCD-disable, disconnect

stateVars == <<con_handle, notifications_enabled, battery_notifications_enabled,
               connection_interval, rx_callback, battery_level, initialized>>
\* the profile strings and the advertising and scan response buffers
profileVars == <<device_name, manufacturer, firmware_version,
                 adv_data, scan_resp_data, scan_resp_data_len>>
obsVars == <<op, arg, ret, wire, cbcalls, answers>>
vars == <<con_handle, notifications_enabled, battery_notifications_enabled,
          connection_interval, rx_callback, battery_level, initialized,
          device_name, manufacturer, firmware_version,
          adv_data, scan_resp_data, scan_resp_data_len,
          op, arg, ret, wire, cbcalls, answers, armed, scen>>

Call(fn, h, att, data, res) == [fn |-> fn, h |-> h, att |-> att, data |-> data, res |-> res]

Obs(o, a, r, w, c) ==
  /\ op' = o
  /\ arg' = a
  /\ ret' = r
  /\ wire' = w
  /\ cbcalls' = c
  /\ answers' = <<>>

\* what a handler returns to the stack and the bytes it puts into the buffer
\* the stack gave it
Answer(r, copied) == [ret |-> r, copied |-> copied]

\* the run loop of rokot_ble_midi_task: the poll and the wait of 1 ms after
\* it; the handlers run inside either. cyw43_arch_async_context and
\* make_timeout_time_ms only compute the arguments of the two calls.
RunLoop ==
  [before |-> <<Call("async_context_poll", HCI_CON_HANDLE_INVALID, "-", <<>>, 0)>>,
   after |-> <<Call("async_context_wait_for_work_until", HCI_CON_HANDLE_INVALID, "-", <<1>>, 0)>>]

\* the events the run loop can hold for the handlers init registered
le_connection_complete(h, itv) == [kind |-> "connection_complete", h |-> h, itv |-> itv]
le_connection_update_complete(itv) == [kind |-> "connection_update_complete", itv |-> itv]
disconnection_complete == [kind |-> "disconnection_complete"]
btstack_event_state(working) == [kind |-> "btstack_event_state", working |-> working]
att_write(h, att, buffer, size) ==
  [kind |-> "att_write", h |-> h, att |-> att, buffer |-> buffer, size |-> size]
att_read(h, att, offset, buffer, size) ==
  [kind |-> "att_read", h |-> h, att |-> att, offset |-> offset, buffer |-> buffer, size |-> size]

\* ------------------------------------------------------------------------
\* Status queries
\* ------------------------------------------------------------------------
\* variant: the link is tested before the MIDI gate
rokot_ble_midi_get_state_mutOrder ==
  IF con_handle # HCI_CON_HANDLE_INVALID THEN ROKOT_BLE_MIDI_CONNECTED
  ELSE IF notifications_enabled THEN ROKOT_BLE_MIDI_READY
  ELSE ROKOT_BLE_MIDI_DISCONNECTED

rokot_ble_midi_get_state ==
  IF notifications_enabled THEN ROKOT_BLE_MIDI_READY
  ELSE IF con_handle # HCI_CON_HANDLE_INVALID THEN ROKOT_BLE_MIDI_CONNECTED
  ELSE ROKOT_BLE_MIDI_DISCONNECTED

rokot_ble_midi_is_ready ==
  notifications_enabled /\ con_handle # HCI_CON_HANDLE_INVALID

rokot_ble_midi_is_connected ==
  con_handle # HCI_CON_HANDLE_INVALID

\* connection_interval * 1.25f, in units of 1/100 ms to stay in the integers
rokot_ble_midi_get_connection_interval == connection_interval * 125

rokot_ble_midi_get_battery_level == battery_level

\* progress of the scenario link-complete, MIDI CCCD-enable, MIDI CCCD-disable,
\* disconnect, started from DISCONNECTED; any other step abandons it
ScenNext(s, kind) ==
  IF kind = "link" /\ ~s.notifications_enabled /\ s.con_handle = HCI_CON_HANDLE_INVALID THEN 1
  ELSE IF kind = "midi_on" /\ s.scen = 1 THEN 2
  ELSE IF kind = "midi_off" /\ s.scen = 2 THEN 3
  ELSE IF kind = "disc" /\ s.scen = 3 THEN 4
  ELSE 0

\* the fields of ble_midi_state the handlers assign, with the two histories
ble_midi_state ==
  [con_handle |-> con_handle, notifications_enabled |-> notifications_enabled,
   battery_notifications_enabled |-> battery_notifications_enabled,
   connection_interval |-> connection_interval, armed |-> armed, scen |-> scen]

ScenStep(kind) == ScenNext(ble_midi_state, kind)

\* what an event handler or deinit found when it was entered
Before ==
  [state |-> rokot_ble_midi_get_state, midi |-> notifications_enabled,
   battery |-> battery_notifications_enabled, itv |-> connection_interval]

\* variant: the flags record is left out
ADV_DATA_mutNoFlags ==
  <<17, BLUETOOTH_DATA_TYPE_COMPLETE_LIST_OF_128_BIT_SERVICE_CLASS_UUIDS,
    0, 199, 196, 78, 227, 108, 81, 167,
    51, 75, 232, 237, 90, 14, 184, 3>>

\* variant: the UUID is written in its printed byte order
ADV_DATA_mutForward ==
  <<2, BLUETOOTH_DATA_TYPE_FLAGS, APP_AD_FLAGS,
    17, BLUETOOTH_DATA_TYPE_COMPLETE_LIST_OF_128_BIT_SERVICE_CLASS_UUIDS,
    3, 184, 14, 90, 237, 232, 75, 51,
    167, 81, 108, 227, 78, 196, 199, 0>>

\* the initializer of adv_data
ADV_DATA ==
  <<2, BLUETOOTH_DATA_TYPE_FLAGS, APP_AD_FLAGS,
    17, BLUETOOTH_DATA_TYPE_COMPLETE_LIST_OF_128_BIT_SERVICE_CLASS_UUIDS,
    0, 199, 196, 78, 227, 108, 81, 167,
    51, 75, 232, 237, 90, 14, 184, 3>>

\* the profile strings and buffers as the program is loaded
ProfileInit ==
  /\ device_name = Zeros(DEVICE_NAME_SIZE)
  /\ manufacturer = CharArray(ROKOT_BLE_MIDI_MANUFACTURER, MANUFACTURER_SIZE)
  /\ firmware_version = CharArray(ROKOT_BLE_MIDI_FIRMWARE_VERSION, FIRMWARE_VERSION_SIZE)
  /\ adv_data = ADV_DATA
  /\ scan_resp_data = Zeros(SCAN_RESP_DATA_SIZE)
  /\ scan_resp_data_len = 0

\* what build_scan_response(name) leaves in scan_resp_data and
\* scan_resp_data_len when it starts from the buffer buf
build_scan_response(buf, name) ==
  LET name_len == IF Len(name) > 29 THEN 29 ELSE Len(name)
  IN [data |-> memcpy([buf EXCEPT ![1] = U8(name_len + 1),
                                  ![2] = BLUETOOTH_DATA_TYPE_COMPLETE_LOCAL_NAME],
                      2, name, name_len),
      len |-> U8(name_len + 2)]

\* the profile strings and buffers after a first rokot_ble_midi_init(name)
ProfileAfterInit(name) ==
  /\ device_name = [strncpy(Zeros(DEVICE_NAME_SIZE), name, DEVICE_NAME_SIZE - 1)
                      EXCEPT ![DEVICE_NAME_SIZE] = 0]
  /\ manufacturer = CharArray(ROKOT_BLE_MIDI_MANUFACTURER, MANUFACTURER_SIZE)
  /\ firmware_version = CharArray(ROKOT_BLE_MIDI_FIRMWARE_VERSION, FIRMWARE_VERSION_SIZE)
  /\ adv_data = ADV_DATA
  /\ scan_resp_data = build_scan_response(Zeros(SCAN_RESP_DATA_SIZE), name).data
  /\ scan_resp_data_len = build_scan_response(Zeros(SCAN_RESP_DATA_SIZE), name).len

Init ==
  /\ ProfileInit
  /\ con_handle = HCI_CON_HANDLE_INVALID
  /\ notifications_enabled = FALSE
  /\ battery_notifications_enabled = FALSE
  /\ connection_interval = 0
  /\ rx_callback = NULL
  /\ battery_level = 100
  /\ initialized = FALSE
  /\ op = "none"
  /\ arg = <<>>
  /\ ret = 0
  /\ wire = <<>>
  /\ cbcalls = <<>>
  /\ answers = <<>>
  /\ armed = FALSE
  /\ scen = 0

\* ------------------------------------------------------------------------
\* HCI event handler (packet_handler)
\* ------------------------------------------------------------------------
\* Each handler is given the record s it finds when it is entered and yields
\* the record it leaves, the transport calls it makes, the receive-callback
\* invocations it makes and what it answers the stack.
Handled(s, w, c, a) == [state |-> s, wire |-> w, cbcalls |-> c, answers |-> a]

packet_handler_connection_complete(s, h, itv) ==
  Handled([s EXCEPT !.con_handle = h, !.connection_interval = itv,
                    !.scen = ScenNext(s, "link")],
          <<Call("gap_request_connection_parameter_update", h, "-",
                 <<ROKOT_BLE_MIDI_CONN_INTERVAL_MIN, ROKOT_BLE_MIDI_CONN_INTERVAL_MAX, 0, 100>>, 0)>>,
          <<>>, <<>>)

\* variant: the update is answered with a new parameter request
packet_handler_connection_update_complete_mutRequest(s, itv) ==
  Handled([s EXCEPT !.connection_interval = itv, !.scen = ScenNext(s, "other")],
          <<Call("gap_request_connection_parameter_update", s.con_handle, "-",
                 <<ROKOT_BLE_MIDI_CONN_INTERVAL_MIN, ROKOT_BLE_MIDI_CONN_INTERVAL_MAX, 0, 100>>, 0)>>,
          <<>>, <<>>)

packet_handler_connection_update_complete(s, itv) ==
  Handled([s EXCEPT !.connection_interval = itv, !.scen = ScenNext(s, "other")],
          <<>>, <<>>, <<>>)

\* variant: the Battery gate survives the disconnect
packet_handler_disconnection_complete_mutBattery(s) ==
  Handled([s EXCEPT !.con_handle = HCI_CON_HANDLE_INVALID,
                    !.notifications_enabled = FALSE,
                    !.connection_interval = 0,
                    !.armed = FALSE, !.scen = ScenNext(s, "disc")],
          <<Call("gap_advertisements_enable", HCI_CON_HANDLE_INVALID, "-", <<1>>, 0)>>,
          <<>>, <<>>)

packet_handler_disconnection_complete(s) ==
  Handled([s EXCEPT !.con_handle = HCI_CON_HANDLE_INVALID,
                    !.notifications_enabled = FALSE,
                    !.battery_notifications_enabled = FALSE,
                    !.connection_interval = 0,
                    !.armed = FALSE, !.scen = ScenNext(s, "disc")],
          <<Call("gap_advertisements_enable", HCI_CON_HANDLE_INVALID, "-", <<1>>, 0)>>,
          <<>>, <<>>)

\* ------------------------------------------------------------------------
\* ATT write callback (att_write_callback)
\* ------------------------------------------------------------------------
\* buffer[i] of the C code, buffers being 0-based there
At(buffer, i) == buffer[i + 1]

RxCall(cb, status, data1, data2) == [cb |-> cb, status |-> status, data1 |-> data1, data2 |-> data2]

\* variant: only the header byte is skipped
att_write_midi_value_mutOffset(buffer, buffer_size) ==
  IF buffer_size > 2 /\ rx_callback # NULL
  THEN IF buffer_size >= 5
       THEN <<RxCall(rx_callback, At(buffer, 1), At(buffer, 2), At(buffer, 3))>>
       ELSE IF buffer_size >= 4
            THEN <<RxCall(rx_callback, At(buffer, 1), At(buffer, 2), 0)>>
            ELSE <<>>
  ELSE <<>>

\* variant: a two-byte MIDI message is dropped
att_write_midi_value_mutNoShort(buffer, buffer_size) ==
  IF buffer_size > 2 /\ rx_callback # NULL
  THEN IF buffer_size >= 5
       THEN <<RxCall(rx_callback, At(buffer, 2), At(buffer, 3), At(buffer, 4))>>
       ELSE <<>>
  ELSE <<>>

\* variant: a packet whose header byte lacks the top bit is dropped
att_write_midi_value_mutHeaderCheck(buffer, buffer_size) ==
  IF buffer_size > 2 /\ rx_callback # NULL /\ At(buffer, 0) >= 128
  THEN IF buffer_size >= 5
       THEN <<RxCall(rx_callback, At(buffer, 2), At(buffer, 3), At(buffer, 4))>>
       ELSE IF buffer_size >= 4
            THEN <<RxCall(rx_callback, At(buffer, 2), At(buffer, 3), 0)>>
            ELSE <<>>
  ELSE <<>>

\* the "Incoming MIDI" branch: the callback invocations made for a value write
att_write_midi_value(buffer, buffer_size) ==
  IF buffer_size > 2 /\ rx_callback # NULL
  THEN IF buffer_size >= 5
       THEN <<RxCall(rx_callback, At(buffer, 2), At(buffer, 3), At(buffer, 4))>>
       ELSE IF buffer_size >= 4
            THEN <<RxCall(rx_callback, At(buffer, 2), At(buffer, 3), 0)>>
            ELSE <<>>
  ELSE <<>>

\* variant: the notification bit alone is tested
cccd_enables_mutBit(buffer) ==
  BitAnd(little_endian_read_16(buffer, 0),
         GATT_CLIENT_CHARACTERISTICS_CONFIGURATION_NOTIFICATION, 16) # 0

\* the value a CCCD write gives its notification gate
cccd_enables(buffer) ==
  little_endian_read_16(buffer, 0) = GATT_CLIENT_CHARACTERISTICS_CONFIGURATION_NOTIFICATION

\* the scenario step a MIDI CCCD write of buffer is
CccdStep(buffer) ==
  IF buffer = <<1, 0>> THEN "midi_on" ELSE IF buffer = <<0, 0>> THEN "midi_off" ELSE "other"

\* variant: a Battery CCCD write sets both gates
att_write_callback_mutShared(s, connection_handle, att_handle, buffer, buffer_size) ==
  IF att_handle = "BATTERY_CCCD"
  THEN Handled([s EXCEPT !.battery_notifications_enabled = cccd_enables(buffer),
                         !.notifications_enabled = cccd_enables(buffer),
                         !.con_handle = connection_handle,
                         !.scen = ScenNext(s, "other")],
               <<>>, <<>>, <<Answer(0, <<>>)>>)
  ELSE IF att_handle = "MIDI_CCCD"
  THEN Handled([s EXCEPT !.notifications_enabled = cccd_enables(buffer),
                         !.con_handle = connection_handle,
                         !.armed = (buffer = <<1, 0>>),
                         !.scen = ScenNext(s, CccdStep(buffer))],
               <<>>, <<>>, <<Answer(0, <<>>)>>)
  ELSE IF att_handle = "MIDI_VALUE"
  THEN Handled([s EXCEPT !.scen = ScenNext(s, "other")],
               <<>>, att_write_midi_value(buffer, buffer_size), <<Answer(0, <<>>)>>)
  ELSE Handled([s EXCEPT !.scen = ScenNext(s, "other")], <<>>, <<>>, <<Answer(0, <<>>)>>)

\* variant: a MIDI value write records the connection handle too
att_write_callback_mutValueHandle(s, connection_handle, att_handle, buffer, buffer_size) ==
  IF att_handle = "BATTERY_CCCD"
  THEN Handled([s EXCEPT !.battery_notifications_enabled = cccd_enables(buffer),
                         !.con_handle = connection_handle,
                         !.scen = ScenNext(s, "other")],
               <<>>, <<>>, <<Answer(0, <<>>)>>)
  ELSE IF att_handle = "MIDI_CCCD"
  THEN Handled([s EXCEPT !.notifications_enabled = cccd_enables(buffer),
                         !.con_handle = connection_handle,
                         !.armed = (buffer = <<1, 0>>),
                         !.scen = ScenNext(s, CccdStep(buffer))],
               <<>>, <<>>, <<Answer(0, <<>>)>>)
  ELSE IF att_handle = "MIDI_VALUE"
  THEN Handled([s EXCEPT !.con_handle = connection_handle,
                         !.scen = ScenNext(s, "other")],
               <<>>, att_write_midi_value(buffer, buffer_size), <<Answer(0, <<>>)>>)
  ELSE Handled([s EXCEPT !.scen = ScenNext(s, "other")], <<>>, <<>>, <<Answer(0, <<>>)>>)

\* every branch answers 0; the value-write branch reads the receive callback,
\* which no handler assigns
att_write_callback(s, connection_handle, att_handle, buffer, buffer_size) ==
  IF att_handle = "BATTERY_CCCD"
  THEN Handled([s EXCEPT !.battery_notifications_enabled = cccd_enables(buffer),
                         !.con_handle = connection_handle,
                         !.scen = ScenNext(s, "other")],
               <<>>, <<>>, <<Answer(0, <<>>)>>)
  ELSE IF att_handle = "MIDI_CCCD"
  THEN Handled([s EXCEPT !.notifications_enabled = cccd_enables(buffer),
                         !.con_handle = connection_handle,
                         !.armed = (buffer = <<1, 0>>),
                         !.scen = ScenNext(s, CccdStep(buffer))],
               <<>>, <<>>, <<Answer(0, <<>>)>>)
  ELSE IF att_handle = "MIDI_VALUE"
  THEN Handled([s EXCEPT !.scen = ScenNext(s, "other")],
               <<>>, att_write_midi_value(buffer, buffer_size), <<Answer(0, <<>>)>>)
  ELSE Handled([s EXCEPT !.scen = ScenNext(s, "other")], <<>>, <<>>, <<Answer(0, <<>>)>>)

\* ------------------------------------------------------------------------
\* Packet codec and the internal send
\* ------------------------------------------------------------------------
\* variant: the timestamp byte lacks its top bit
encode_ble_midi_packet_mutTimestamp(midi, midi_len) ==
  <<128, 0>> \o SubSeq(midi, 1, midi_len)

\* variant: the timestamp byte is left out
encode_ble_midi_packet_mutNoTimestamp(midi, midi_len) ==
  <<128>> \o SubSeq(midi, 1, midi_len)

encode_ble_midi_packet(midi, midi_len) ==
  <<128, 128>> \o SubSeq(midi, 1, midi_len)

\* variant: refuses only when both the gate and the link are missing
send_midi_internal_mutAndGate(midi, len, can_send_now, notify_result) ==
  IF ~notifications_enabled /\ con_handle = HCI_CON_HANDLE_INVALID
  THEN [ret |-> -1, wire |-> <<>>]
  ELSE LET packet == encode_ble_midi_packet(midi, len)
       IN IF ~can_send_now
          THEN [ret |-> -2,
                wire |-> <<Call("att_server_can_send_packet_now", con_handle, "-", <<>>, 0)>>]
          ELSE [ret |-> IF notify_result = 0 THEN 0 ELSE -3,
                wire |-> <<Call("att_server_can_send_packet_now", con_handle, "-", <<>>, 1),
                           Call("att_server_notify", con_handle, "MIDI_VALUE", packet, notify_result)>>]

\* variant: the readiness test is missing
send_midi_internal_mutNoGate(midi, len, can_send_now, notify_result) ==
  LET packet == encode_ble_midi_packet(midi, len)
  IN IF ~can_send_now
     THEN [ret |-> -2,
           wire |-> <<Call("att_server_can_send_packet_now", con_handle, "-", <<>>, 0)>>]
     ELSE [ret |-> IF notify_result = 0 THEN 0 ELSE -3,
           wire |-> <<Call("att_server_can_send_packet_now", con_handle, "-", <<>>, 1),
                      Call("att_server_notify", con_handle, "MIDI_VALUE", packet, notify_result)>>]

\* variant: the answer of att_server_can_send_packet_now is not acted on
send_midi_internal_mutIgnoreBusy(midi, len, can_send_now, notify_result) ==
  IF ~notifications_enabled \/ con_handle = HCI_CON_HANDLE_INVALID
  THEN [ret |-> -1, wire |-> <<>>]
  ELSE LET packet == encode_ble_midi_packet(midi, len)
       IN [ret |-> IF can_send_now /\ notify_result = 0 THEN 0 ELSE -3,
           wire |-> <<Call("att_server_can_send_packet_now", con_handle, "-", <<>>,
                           IF can_send_now THEN 1 ELSE 0),
                      Call("att_server_notify", con_handle, "MIDI_VALUE", packet,
                           IF can_send_now THEN notify_result ELSE 87)>>]

\* variant: the result of att_server_notify is not looked at
send_midi_internal_mutIgnoreResult(midi, len, can_send_now, notify_result) ==
  IF ~notifications_enabled \/ con_handle = HCI_CON_HANDLE_INVALID
  THEN [ret |-> -1, wire |-> <<>>]
  ELSE LET packet == encode_ble_midi_packet(midi, len)
       IN IF ~can_send_now
          THEN [ret |-> -2,
                wire |-> <<Call("att_server_can_send_packet_now", con_handle, "-", <<>>, 0)>>]
          ELSE [ret |-> 0,
                wire |-> <<Call("att_server_can_send_packet_now", con_handle, "-", <<>>, 1),
                           Call("att_server_notify", con_handle, "MIDI_VALUE", packet, notify_result)>>]

send_midi_internal(midi, len, can_send_now, notify_result) ==
  IF ~notifications_enabled \/ con_handle = HCI_CON_HANDLE_INVALID
  THEN [ret |-> -1, wire |-> <<>>]
  ELSE LET packet == encode_ble_midi_packet(midi, len)
       IN IF ~can_send_now
          THEN [ret |-> -2,
                wire |-> <<Call("att_server_can_send_packet_now", con_handle, "-", <<>>, 0)>>]
          ELSE [ret |-> IF notify_result = 0 THEN 0 ELSE -3,
                wire |-> <<Call("att_server_can_send_packet_now", con_handle, "-", <<>>, 1),
                           Call("att_server_notify", con_handle, "MIDI_VALUE", packet, notify_result)>>]

\* variant: the channel is not masked to its low nibble
note_on_midi_mutChannel(channel, note, velocity) ==
  <<U8(BitOr(MIDI_NOTE_ON, channel, 8)), BitAnd(note, 127, 8), BitAnd(velocity, 127, 8)>>

\* the MIDI bytes each typed sender builds
note_on_midi(channel, note, velocity) ==
  <<U8(BitOr(MIDI_NOTE_ON, BitAnd(channel, 15, 8), 8)), BitAnd(note, 127, 8), BitAnd(velocity, 127, 8)>>

note_off_midi(channel, note) ==
  <<U8(BitOr(MIDI_NOTE_OFF, BitAnd(channel, 15, 8), 8)), BitAnd(note, 127, 8), 0>>

\* variant: the controller value is sent as the caller gave it
control_change_midi_mutValue(channel, controller, value) ==
  <<U8(BitOr(MIDI_CONTROL_CHANGE, BitAnd(channel, 15, 8), 8)), BitAnd(controller, 127, 8), U8(value)>>

control_change_midi(channel, controller, value) ==
  <<U8(BitOr(MIDI_CONTROL_CHANGE, BitAnd(channel, 15, 8), 8)), BitAnd(controller, 127, 8), BitAnd(value, 127, 8)>>

program_change_midi(channel, program) ==
  <<U8(BitOr(MIDI_PROGRAM_CHANGE, BitAnd(channel, 15, 8), 8)), BitAnd(program, 127, 8)>>

\* variant: the high field is taken from bit 8 up
pitch_bend_midi_mutShift(channel, value) ==
  LET bend == U16(value + 8192)
  IN <<U8(BitOr(MIDI_PITCH_BEND, BitAnd(channel, 15, 8), 8)),
       U8(BitAnd(bend, 127, 16)),
       U8(BitAnd(bend \div 256, 127, 16))>>

\* variant: a value outside -8192..8191 is held at the nearer end
pitch_bend_midi_mutSaturate(channel, value) ==
  LET held == IF value > 8191 THEN 8191 ELSE IF value < -8192 THEN -8192 ELSE value
      bend == U16(held + 8192)
  IN <<U8(BitOr(MIDI_PITCH_BEND, BitAnd(channel, 15, 8), 8)),
       U8(BitAnd(bend, 127, 16)),
       U8(BitAnd(bend \div 128, 127, 16))>>

pitch_bend_midi(channel, value) ==
  LET bend == U16(value + 8192)
  IN <<U8(BitOr(MIDI_PITCH_BEND, BitAnd(channel, 15, 8), 8)),
       U8(BitAnd(bend, 127, 16)),
       U8(BitAnd(bend \div 128, 127, 16))>>

channel_pressure_midi(channel, pressure) ==
  <<U8(BitOr(MIDI_CHANNEL_PRESSURE, BitAnd(channel, 15, 8), 8)), BitAnd(pressure, 127, 8)>>

\* variant: a send that the transport does not take drops the MIDI gate
Send_mutDropGate(name, a, midi, len) ==
  \E t \in TransportAnswers :
    LET r == send_midi_internal(midi, len, t[1], t[2])
    IN /\ notifications_enabled' = (notifications_enabled /\ r.ret # -2)
       /\ UNCHANGED <<con_handle, battery_notifications_enabled, connection_interval,
                      rx_callback, battery_level, initialized, armed>>
       /\ scen' = ScenStep("other")
       /\ UNCHANGED profileVars
       /\ Obs(name, [t |-> t] @@ a, r.ret, r.wire, <<>>)

\* a sender: build the bytes, call send_midi_internal, return its result
Send(name, a, midi, len) ==
  \E t \in TransportAnswers :
    LET r == send_midi_internal(midi, len, t[1], t[2])
    IN /\ UNCHANGED <<stateVars, armed>>
       /\ scen' = ScenStep("other")
       /\ UNCHANGED profileVars
       /\ Obs(name, [t |-> t] @@ a, r.ret, r.wire, <<>>)

rokot_ble_midi_note_on(channel, note, velocity) ==
  Send("note_on", [channel |-> channel, d1 |-> note, d2 |-> velocity],
       note_on_midi(channel, note, velocity), 3)

rokot_ble_midi_note_off(channel, note) ==
  Send("note_off", [channel |-> channel, d1 |-> note], note_off_midi(channel, note), 3)

rokot_ble_midi_control_change(channel, controller, value) ==
  Send("control_change", [channel |-> channel, d1 |-> controller, d2 |-> value],
       control_change_midi(channel, controller, value), 3)

rokot_ble_midi_program_change(channel, program) ==
  Send("program_change", [channel |-> channel, d1 |-> program],
       program_change_midi(channel, program), 2)

rokot_ble_midi_pitch_bend(channel, value) ==
  Send("pitch_bend", [channel |-> channel, value |-> value], pitch_bend_midi(channel, value), 3)

rokot_ble_midi_channel_pressure(channel, pressure) ==
  Send("channel_pressure", [channel |-> channel, d1 |-> pressure],
       channel_pressure_midi(channel, pressure), 2)

\* variant: only the upper limit of the length is tested
rokot_ble_midi_send_raw_mutZero(data, len) ==
  IF len > 3
  THEN /\ UNCHANGED <<stateVars, armed>>
       /\ scen' = ScenStep("other")
       /\ UNCHANGED profileVars
       /\ Obs("send_raw", [data |-> data, len |-> len, t |-> <<FALSE, 0>>], -1, <<>>, <<>>)
  ELSE Send("send_raw", [data |-> data, len |-> len], data, len)

rokot_ble_midi_send_raw(data, len) ==
  IF len = 0 \/ len > 3
  THEN /\ UNCHANGED <<stateVars, armed>>
       /\ scen' = ScenStep("other")
       /\ UNCHANGED profileVars
       /\ Obs("send_raw", [data |-> data, len |-> len, t |-> <<FALSE, 0>>], -1, <<>>, <<>>)
  ELSE Send("send_raw", [data |-> data, len |-> len], data, len)

\* ------------------------------------------------------------------------
\* Initialization, main loop, setters
\* ------------------------------------------------------------------------
\* variant: the device name and the scan response are written before the
\* initialized flag is looked at
rokot_ble_midi_init_mutLateTest(name, cyw43_result) ==
  /\ UNCHANGED <<con_handle, notifications_enabled, battery_notifications_enabled,
                 connection_interval, rx_callback, battery_level, armed>>
  /\ UNCHANGED <<manufacturer, firmware_version, adv_data>>
  /\ scen' = ScenStep("other")
  /\ device_name' = [strncpy(device_name, name, DEVICE_NAME_SIZE - 1)
                       EXCEPT ![DEVICE_NAME_SIZE] = 0]
  /\ scan_resp_data' = build_scan_response(scan_resp_data, name).data
  /\ scan_resp_data_len' = build_scan_response(scan_resp_data, name).len
  /\ IF initialized
     THEN /\ UNCHANGED initialized
          /\ Obs("init", [name |-> name, cyw43 |-> cyw43_result], -1, <<>>, <<>>)
     ELSE IF cyw43_result # 0
          THEN /\ UNCHANGED initialized
               /\ Obs("init", [name |-> name, cyw43 |-> cyw43_result], -2,
                      <<Call("cyw43_arch_init", HCI_CON_HANDLE_INVALID, "-", <<>>, cyw43_result)>>, <<>>)
          ELSE /\ initialized' = TRUE
               /\ Obs("init", [name |-> name, cyw43 |-> cyw43_result], 0,
                      <<Call("cyw43_arch_init", HCI_CON_HANDLE_INVALID, "-", <<>>, 0),
                        Call("att_server_init", HCI_CON_HANDLE_INVALID, "-", <<>>, 0),
                        Call("hci_power_control", HCI_CON_HANDLE_INVALID, "-", <<1>>, 0)>>, <<>>)

\* variant: the scan response takes the name up to 30 bytes
rokot_ble_midi_init_mutLongName(name, cyw43_result) ==
  /\ UNCHANGED <<con_handle, notifications_enabled, battery_notifications_enabled,
                 connection_interval, rx_callback, battery_level, armed>>
  /\ UNCHANGED <<manufacturer, firmware_version, adv_data>>
  /\ scen' = ScenStep("other")
  /\ IF initialized
     THEN /\ UNCHANGED <<initialized, device_name, scan_resp_data, scan_resp_data_len>>
          /\ Obs("init", [name |-> name, cyw43 |-> cyw43_result], -1, <<>>, <<>>)
     ELSE /\ device_name' = [strncpy(device_name, name, DEVICE_NAME_SIZE - 1)
                               EXCEPT ![DEVICE_NAME_SIZE] = 0]
          /\ LET name_len == IF Len(name) > 30 THEN 30 ELSE Len(name)
             IN /\ scan_resp_data' =
                     memcpy([scan_resp_data EXCEPT ![1] = U8(name_len + 1),
                                                   ![2] = BLUETOOTH_DATA_TYPE_COMPLETE_LOCAL_NAME],
                            2, name, name_len)
                /\ scan_resp_data_len' = U8(name_len + 2)
          /\ IF cyw43_result # 0
             THEN /\ UNCHANGED initialized
                  /\ Obs("init", [name |-> name, cyw43 |-> cyw43_result], -2,
                         <<Call("cyw43_arch_init", HCI_CON_HANDLE_INVALID, "-", <<>>, cyw43_result)>>, <<>>)
             ELSE /\ initialized' = TRUE
                  /\ Obs("init", [name |-> name, cyw43 |-> cyw43_result], 0,
                         <<Call("cyw43_arch_init", HCI_CON_HANDLE_INVALID, "-", <<>>, 0),
                           Call("att_server_init", HCI_CON_HANDLE_INVALID, "-", <<>>, 0),
                           Call("hci_power_control", HCI_CON_HANDLE_INVALID, "-", <<1>>, 0)>>, <<>>)

rokot_ble_midi_init(name, cyw43_result) ==
  /\ UNCHANGED <<con_handle, notifications_enabled, battery_notifications_enabled,
                 connection_interval, rx_callback, battery_level, armed>>
  /\ UNCHANGED <<manufacturer, firmware_version, adv_data>>
  /\ scen' = ScenStep("other")
  /\ IF initialized
     THEN /\ UNCHANGED <<initialized, device_name, scan_resp_data, scan_resp_data_len>>
          /\ Obs("init", [name |-> name, cyw43 |-> cyw43_result], -1, <<>>, <<>>)
     ELSE /\ device_name' = [strncpy(device_name, name, DEVICE_NAME_SIZE - 1)
                               EXCEPT ![DEVICE_NAME_SIZE] = 0]
          /\ scan_resp_data' = build_scan_response(scan_resp_data, name).data
          /\ scan_resp_data_len' = build_scan_response(scan_resp_data, name).len
          /\ IF cyw43_result # 0
             THEN /\ UNCHANGED initialized
                  /\ Obs("init", [name |-> name, cyw43 |-> cyw43_result], -2,
                         <<Call("cyw43_arch_init", HCI_CON_HANDLE_INVALID, "-", <<>>, cyw43_result)>>, <<>>)
             ELSE /\ initialized' = TRUE
                  /\ Obs("init", [name |-> name, cyw43 |-> cyw43_result], 0,
                         <<Call("cyw43_arch_init", HCI_CON_HANDLE_INVALID, "-", <<>>, 0),
                           Call("att_server_init", HCI_CON_HANDLE_INVALID, "-", <<>>, 0),
                           Call("hci_power_control", HCI_CON_HANDLE_INVALID, "-", <<1>>, 0)>>, <<>>)

\* variant: deinit leaves the MIDI gate as it was
rokot_ble_midi_deinit_mutKeepGate ==
  /\ IF ~initialized
     THEN /\ UNCHANGED <<initialized, con_handle, battery_notifications_enabled>>
          /\ wire' = <<>>
     ELSE /\ initialized' = FALSE
          /\ con_handle' = HCI_CON_HANDLE_INVALID
          /\ battery_notifications_enabled' = FALSE
          /\ wire' = <<Call("hci_power_control", HCI_CON_HANDLE_INVALID, "-", <<0>>, 0),
                       Call("cyw43_arch_deinit", HCI_CON_HANDLE_INVALID, "-", <<>>, 0)>>
  /\ UNCHANGED <<notifications_enabled, connection_interval, rx_callback, battery_level>>
  /\ armed' = FALSE
  /\ scen' = ScenStep("other")
  /\ UNCHANGED profileVars
  /\ op' = "deinit"
  /\ arg' = Before
  /\ ret' = 0
  /\ cbcalls' = <<>>
  /\ answers' = <<>>

\* variant: shutting down puts the battery level back to its default
rokot_ble_midi_deinit_mutProfile ==
  /\ IF ~initialized
     THEN /\ UNCHANGED <<initialized, con_handle, notifications_enabled, battery_notifications_enabled>>
          /\ wire' = <<>>
     ELSE /\ initialized' = FALSE
          /\ con_handle' = HCI_CON_HANDLE_INVALID
          /\ notifications_enabled' = FALSE
          /\ battery_notifications_enabled' = FALSE
          /\ wire' = <<Call("hci_power_control", HCI_CON_HANDLE_INVALID, "-", <<0>>, 0),
                       Call("cyw43_arch_deinit", HCI_CON_HANDLE_INVALID, "-", <<>>, 0)>>
  /\ battery_level' = IF initialized THEN 100 ELSE battery_level
  /\ UNCHANGED <<connection_interval, rx_callback>>
  /\ armed' = FALSE
  /\ scen' = ScenStep("other")
  /\ UNCHANGED profileVars
  /\ op' = "deinit"
  /\ arg' = Before
  /\ ret' = 0
  /\ cbcalls' = <<>>
  /\ answers' = <<>>

rokot_ble_midi_deinit ==
  /\ IF ~initialized
     THEN /\ UNCHANGED <<initialized, con_handle, notifications_enabled, battery_notifications_enabled>>
          /\ wire' = <<>>
     ELSE /\ initialized' = FALSE
          /\ con_handle' = HCI_CON_HANDLE_INVALID
          /\ notifications_enabled' = FALSE
          /\ battery_notifications_enabled' = FALSE
          /\ wire' = <<Call("hci_power_control", HCI_CON_HANDLE_INVALID, "-", <<0>>, 0),
                       Call("cyw43_arch_deinit", HCI_CON_HANDLE_INVALID, "-", <<>>, 0)>>
  /\ UNCHANGED <<connection_interval, rx_callback, battery_level>>
  /\ armed' = FALSE
  /\ scen' = ScenStep("other")
  /\ UNCHANGED profileVars
  /\ op' = "deinit"
  /\ arg' = Before
  /\ ret' = 0
  /\ cbcalls' = <<>>
  /\ answers' = <<>>

\* variant: the level is stored as given
rokot_ble_midi_set_battery_level_mutNoClamp(level0, can_send_now, notify_result) ==
  LET level == level0
  IN /\ battery_level' = level
     /\ UNCHANGED <<con_handle, notifications_enabled, battery_notifications_enabled,
                    connection_interval, rx_callback, initialized, armed>>
     /\ scen' = ScenStep("other")
     /\ UNCHANGED profileVars
     /\ Obs("set_battery_level", [level |-> level0, t |-> <<can_send_now, notify_result>>], 0,
            IF battery_notifications_enabled /\ con_handle # HCI_CON_HANDLE_INVALID
            THEN IF can_send_now
                 THEN <<Call("att_server_can_send_packet_now", con_handle, "-", <<>>, 1),
                        Call("att_server_notify", con_handle, "BATTERY_VALUE", <<level>>, notify_result)>>
                 ELSE <<Call("att_server_can_send_packet_now", con_handle, "-", <<>>, 0)>>
            ELSE <<>>,
            <<>>)

rokot_ble_midi_set_battery_level(level0, can_send_now, notify_result) ==
  LET level == IF level0 > 100 THEN 100 ELSE level0
  IN /\ battery_level' = level
     /\ UNCHANGED <<con_handle, notifications_enabled, battery_notifications_enabled,
                    connection_interval, rx_callback, initialized, armed>>
     /\ scen' = ScenStep("other")
     /\ UNCHANGED profileVars
     /\ Obs("set_battery_level", [level |-> level0, t |-> <<can_send_now, notify_result>>], 0,
            IF battery_notifications_enabled /\ con_handle # HCI_CON_HANDLE_INVALID
            THEN IF can_send_now
                 THEN <<Call("att_server_can_send_packet_now", con_handle, "-", <<>>, 1),
                        Call("att_server_notify", con_handle, "BATTERY_VALUE", <<level>>, notify_result)>>
                 ELSE <<Call("att_server_can_send_packet_now", con_handle, "-", <<>>, 0)>>
            ELSE <<>>,
            <<>>)

\* variant: a registered callback is kept when a new one is given
rokot_ble_midi_set_callback_mutKeepFirst(callback) ==
  /\ rx_callback' = IF rx_callback = NULL THEN callback ELSE rx_callback
  /\ UNCHANGED <<con_handle, notifications_enabled, battery_notifications_enabled,
                 connection_interval, battery_level, initialized, armed>>
  /\ scen' = ScenStep("other")
  /\ UNCHANGED profileVars
  /\ Obs("set_callback", [cb |-> callback], 0, <<>>, <<>>)

rokot_ble_midi_set_callback(callback) ==
  /\ rx_callback' = callback
  /\ UNCHANGED <<con_handle, notifications_enabled, battery_notifications_enabled,
                 connection_interval, battery_level, initialized, armed>>
  /\ scen' = ScenStep("other")
  /\ UNCHANGED profileVars
  /\ Obs("set_callback", [cb |-> callback], 0, <<>>, <<>>)

\* ------------------------------------------------------------------------
\* Device information: the profile string setters and the read callback
\* ------------------------------------------------------------------------
\* variant: the whole array is copied and no terminator is written
rokot_ble_midi_set_manufacturer_mutNoTerminator(s) ==
  /\ manufacturer' = strncpy(manufacturer, s, MANUFACTURER_SIZE)
  /\ UNCHANGED <<stateVars, armed>>
  /\ UNCHANGED <<device_name, firmware_version, adv_data, scan_resp_data, scan_resp_data_len>>
  /\ scen' = ScenStep("other")
  /\ Obs("set_manufacturer", [s |-> s], 0, <<>>, <<>>)

rokot_ble_midi_set_manufacturer(s) ==
  /\ manufacturer' = [strncpy(manufacturer, s, MANUFACTURER_SIZE - 1)
                        EXCEPT ![MANUFACTURER_SIZE] = 0]
  /\ UNCHANGED <<stateVars, armed>>
  /\ UNCHANGED <<device_name, firmware_version, adv_data, scan_resp_data, scan_resp_data_len>>
  /\ scen' = ScenStep("other")
  /\ Obs("set_manufacturer", [s |-> s], 0, <<>>, <<>>)

rokot_ble_midi_set_firmware_version(s) ==
  /\ firmware_version' = [strncpy(firmware_version, s, FIRMWARE_VERSION_SIZE - 1)
                            EXCEPT ![FIRMWARE_VERSION_SIZE] = 0]
  /\ UNCHANGED <<stateVars, armed>>
  /\ UNCHANGED <<device_name, manufacturer, adv_data, scan_resp_data, scan_resp_data_len>>
  /\ scen' = ScenStep("other")
  /\ Obs("set_firmware_version", [s |-> s], 0, <<>>, <<>>)

\* BTstack's att_read_callback_handle_blob: with a buffer it copies
\* min(blob_size - offset, buffer_size) bytes of the blob from offset on when
\* offset <= blob_size and nothing otherwise, and returns the number copied;
\* without a buffer it returns blob_size.  The result is the bytes copied
\* and the value returned.
att_read_callback_handle_blob(blob, blob_size, offset, buffer, buffer_size) ==
  IF buffer # NULL
  THEN IF blob_size >= offset
       THEN LET bytes_to_copy == IF blob_size - offset < buffer_size
                                 THEN blob_size - offset ELSE buffer_size
            IN [copied |-> SubSeq(blob, offset + 1, offset + bytes_to_copy),
                ret |-> bytes_to_copy]
       ELSE [copied |-> <<>>, ret |-> 0]
  ELSE [copied |-> <<>>, ret |-> blob_size]

att_read_callback_handle_byte(value, offset, buffer, buffer_size) ==
  att_read_callback_handle_blob(<<value>>, 1, offset, buffer, buffer_size)

ReadHandles == {"MANUFACTURER_VALUE", "FIRMWARE_VALUE", "BATTERY_VALUE", "MIDI_VALUE", "OTHER"}

\* what att_read_callback answers: the bytes put into the buffer and the
\* value returned
att_read_result(att_handle, offset, buffer, buffer_size) ==
  IF att_handle = "MANUFACTURER_VALUE"
  THEN att_read_callback_handle_blob(manufacturer, strlen(manufacturer),
                                     offset, buffer, buffer_size)
  ELSE IF att_handle = "FIRMWARE_VALUE"
  THEN att_read_callback_handle_blob(firmware_version, strlen(firmware_version),
                                     offset, buffer, buffer_size)
  ELSE IF att_handle = "BATTERY_VALUE"
  THEN att_read_callback_handle_byte(battery_level, offset, buffer, buffer_size)
  ELSE [copied |-> <<>>, ret |-> 0]

\* variant: the size of the array is passed as the length of the string
att_read_callback_mutSizeof(s, connection_handle, att_handle, offset, buffer, buffer_size) ==
  LET r == IF att_handle = "MANUFACTURER_VALUE"
           THEN att_read_callback_handle_blob(manufacturer, MANUFACTURER_SIZE,
                                              offset, buffer, buffer_size)
           ELSE att_read_result(att_handle, offset, buffer, buffer_size)
  IN Handled([s EXCEPT !.scen = ScenNext(s, "other")], <<>>, <<>>,
             <<Answer(r.ret, r.copied)>>)

\* the value returned and the bytes put into the buffer are what the stack
\* is answered
att_read_callback(s, connection_handle, att_handle, offset, buffer, buffer_size) ==
  LET r == att_read_result(att_handle, offset, buffer, buffer_size)
  IN Handled([s EXCEPT !.scen = ScenNext(s, "other")], <<>>, <<>>,
             <<Answer(r.ret, r.copied)>>)

\* packet_handler, BTSTACK_EVENT_STATE: when the stack is up the advertising
\* and scan response data are handed to it and advertising is enabled
packet_handler_state(s, working) ==
  Handled([s EXCEPT !.scen = ScenNext(s, "other")],
          IF working
          THEN <<Call("gap_advertisements_set_params", HCI_CON_HANDLE_INVALID, "-",
                      <<32, 64, 0, 0, 7, 0>>, 0),
                 Call("gap_advertisements_set_data", HCI_CON_HANDLE_INVALID, "-", adv_data, 0),
                 Call("gap_scan_response_set_data", HCI_CON_HANDLE_INVALID, "-",
                      SubSeq(scan_resp_data, 1, scan_resp_data_len), 0),
                 Call("gap_advertisements_enable", HCI_CON_HANDLE_INVALID, "-", <<1>>, 0)>>
          ELSE <<>>,
          <<>>, <<>>)

\* the handler the stack has registered for the event e, run on s
Dispatch(s, e) ==
  CASE e.kind = "connection_complete" -> packet_handler_connection_complete(s, e.h, e.itv)
    [] e.kind = "connection_update_complete" ->
         packet_handler_connection_update_complete(s, e.itv)
    [] e.kind = "disconnection_complete" -> packet_handler_disconnection_complete(s)
    [] e.kind = "btstack_event_state" -> packet_handler_state(s, e.working)
    [] e.kind = "att_write" -> att_write_callback(s, e.h, e.att, e.buffer, e.size)
    [] e.kind = "att_read" -> att_read_callback(s, e.h, e.att, e.offset, e.buffer, e.size)

\* the run loop delivers the events it holds one after the other, each
\* handler entered with what the one before it left
Join(first, rest) ==
  Handled(rest.state, first.wire \o rest.wire, first.cbcalls \o rest.cbcalls,
          first.answers \o rest.answers)

RECURSIVE Deliver(_, _)
Deliver(s, events) ==
  IF events = <<>>
  THEN Handled(s, <<>>, <<>>, <<>>)
  ELSE \* first is what the handler of the first event leaves
       CHOOSE all \in {Join(first, Deliver(first.state, Tail(events))) :
                         first \in {Dispatch(s, Head(events))}} : TRUE

\* what a step that delivers the single event e is recorded with
EventArg(e) ==
  CASE e.kind = "connection_complete" -> [h |-> e.h, itv |-> e.itv]
    [] e.kind = "connection_update_complete" -> [itv |-> e.itv]
    [] e.kind = "disconnection_complete" -> Before
    [] e.kind = "btstack_event_state" -> [working |-> e.working]
    [] e.kind = "att_write" -> [h |-> e.h, att |-> e.att, buffer |-> e.buffer, size |-> e.size]
    [] e.kind = "att_read" -> [h |-> e.h, att |-> e.att, offset |-> e.offset,
                               buffer |-> e.buffer, size |-> e.size]

\* One call runs the event loop twice: async_context_poll delivers every
\* event that is pending (in_poll), then async_context_wait_for_work_until
\* delivers those that arrive within its millisecond (in_wait). The handlers
\* run nowhere else. The call itself returns nothing, and before init it
\* returns at once and delivers nothing. A step that delivers exactly one
\* event is recorded under that event's name and argument, any other under
\* "task" with the events delivered in the two phases.
rokot_ble_midi_task(in_poll, in_wait) ==
  IF ~initialized
  THEN /\ UNCHANGED <<stateVars, armed>>
       /\ scen' = ScenStep("other")
       /\ UNCHANGED profileVars
       /\ Obs("task", [poll |-> <<>>, wait |-> <<>>], 0, <<>>, <<>>)
  ELSE \E polled \in {Deliver(ble_midi_state, in_poll)} :
       \E waited \in {Deliver(polled.state, in_wait)} :
       \E events \in {in_poll \o in_wait} :
          /\ con_handle' = waited.state.con_handle
          /\ notifications_enabled' = waited.state.notifications_enabled
          /\ battery_notifications_enabled' = waited.state.battery_notifications_enabled
          /\ connection_interval' = waited.state.connection_interval
          /\ UNCHANGED <<rx_callback, battery_level, initialized>>
          /\ armed' = waited.state.armed
          /\ scen' = IF events = <<>> THEN ScenStep("other") ELSE waited.state.scen
          /\ UNCHANGED profileVars
          /\ op' = IF Len(events) = 1 THEN events[1].kind ELSE "task"
          /\ arg' = IF Len(events) = 1 THEN EventArg(events[1])
                    ELSE [poll |-> in_poll, wait |-> in_wait]
          /\ ret' = 0
          /\ wire' = RunLoop.before \o polled.wire \o RunLoop.after \o waited.wire
          /\ cbcalls' = polled.cbcalls \o waited.cbcalls
          /\ answers' = polled.answers \o waited.answers

\* ------------------------------------------------------------------------
\* The library driven by its host application and by the BLE stack
\* ------------------------------------------------------------------------
SendOps == {"note_on", "note_off", "control_change", "program_change", "pitch_bend",
            "channel_pressure", "send_raw"}

\* the MIDI notifications among the transport calls w
MidiNotifies(w) ==
  SelectSeq(w, LAMBDA c : c.fn = "att_server_notify" /\ c.att = "MIDI_VALUE")

\* the handle a value write arrives on: that of the link, or of a link the
\* library has no record of (the value-write branches never read it)
ActiveHandle == IF con_handle # HCI_CON_HANDLE_INVALID THEN con_handle ELSE 1

\* the central writes the packet it was just notified of back to the MIDI
\* characteristic (a loopback peer) and the next poll delivers the write
PeerEcho ==
  /\ op \in SendOps
  /\ ret = 0
  /\ Len(MidiNotifies(wire)) = 1
  /\ LET packet == MidiNotifies(wire)[1].data
     IN rokot_ble_midi_task(<<att_write(ActiveHandle, "MIDI_VALUE", packet, Len(packet))>>, <<>>)

InboundBuffers == Prefixes(InboundPatterns, MaxWriteLen)
RawMessages == Prefixes(RawPatterns, MaxRawLen)

\* the events of the deliveries that are not of a single event in the poll:
\* those that open a Connection, and the one that closes it
OpeningEvents == {le_connection_complete(1, 6), att_write(1, "MIDI_CCCD", <<1, 0>>, 2)}
LinkEvents == OpeningEvents \cup {disconnection_complete}

\* the sequences of at most n events of E
Queues(E, n) == UNION {[1..k -> E] : k \in 0..n}

\* several events of E in one call: all of them pending at the poll, or the
\* last of them arriving during the wait
Bursts(E) ==
  {b \in [poll : Queues(E, MaxPending), wait : Queues(E, 1)] :
     Len(b.poll) + Len(b.wait) \in 2..MaxPending}

Next ==
  \/ \E e \in LinkEvents : rokot_ble_midi_task(<<>>, <<e>>)
  \/ \E b \in Bursts(LinkEvents) : rokot_ble_midi_task(b.poll, b.wait)
  \/ \E h \in Handles, itv \in Intervals : rokot_ble_midi_task(<<le_connection_complete(h, itv)>>, <<>>)
  \/ \E itv \in Intervals : rokot_ble_midi_task(<<le_connection_update_complete(itv)>>, <<>>)
  \/ rokot_ble_midi_task(<<disconnection_complete>>, <<>>)
  \/ \E h \in Handles, a \in {"BATTERY_CCCD", "MIDI_CCCD"}, b \in CccdBuffers :
       rokot_ble_midi_task(<<att_write(h, a, b, 2)>>, <<>>)
  \/ \E b \in InboundBuffers : rokot_ble_midi_task(<<att_write(ActiveHandle, "MIDI_VALUE", b, Len(b))>>, <<>>)
  \/ \E b \in CccdBuffers : rokot_ble_midi_task(<<att_write(ActiveHandle, "OTHER", b, Len(b))>>, <<>>)
  \/ \E name \in DeviceNames, r \in {0, -1} : rokot_ble_midi_init(name, r)
  \/ rokot_ble_midi_deinit
  \/ rokot_ble_midi_task(<<>>, <<>>)
  \/ \E l \in BatteryLevels, t \in TransportAnswers :
       rokot_ble_midi_set_battery_level(l, t[1], t[2])
  \/ \E cb \in Callbacks \cup {NULL} : rokot_ble_midi_set_callback(cb)
  \/ \E c \in Channels, n \in DataBytes, v \in DataBytes : rokot_ble_midi_note_on(c, n, v)
  \/ \E c \in Channels, n \in DataBytes : rokot_ble_midi_note_off(c, n)
  \/ \E c \in Channels, n \in DataBytes, v \in DataBytes : rokot_ble_midi_control_change(c, n, v)
  \/ \E c \in Channels, p \in DataBytes : rokot_ble_midi_program_change(c, p)
  \/ \E c \in Channels, v \in PitchBends : rokot_ble_midi_pitch_bend(c, v)
  \/ \E c \in Channels, p \in DataBytes : rokot_ble_midi_channel_pressure(c, p)
  \/ \E d \in RawMessages : rokot_ble_midi_send_raw(d, Len(d))
  \/ PeerEcho

Spec == Init /\ [][Next]_vars

\* ------------------------------------------------------------------------
\* The typed senders over the whole range of their arguments: the library is
\* READY (a link is up and the central has enabled MIDI notifications), the
\* host picks a sender and its arguments, and the call is made.
\* ------------------------------------------------------------------------
AllBytes == 0..255
EdgeBytes == {0, 60, 127, 128, 228, 255}
MaskArgs ==
  (AllBytes \X EdgeBytes \X EdgeBytes)
    \cup ({0, 31} \X AllBytes \X EdgeBytes)
    \cup ({0, 31} \X EdgeBytes \X AllBytes)

InitMask ==
  /\ ProfileAfterInit(DEVICE_NAME)
  /\ con_handle = 1
  /\ notifications_enabled = TRUE
  /\ battery_notifications_enabled = FALSE
  /\ connection_interval = ROKOT_BLE_MIDI_CONN_INTERVAL_MIN
  /\ rx_callback = NULL
  /\ battery_level = 100
  /\ initialized = TRUE
  /\ op = "call"
  /\ \E fn \in SendOps \ {"send_raw"}, a \in MaskArgs, v \in PitchBends :
       arg = [fn |-> fn, channel |-> a[1], d1 |-> a[2],
              d2 |-> IF fn \in {"note_on", "control_change"} THEN a[3] ELSE 0,
              value |-> IF fn = "pitch_bend" THEN v ELSE 0]
  /\ (arg.fn = "pitch_bend" => arg.d1 = 0)
  /\ ret = 0
  /\ wire = <<>>
  /\ cbcalls = <<>>
  /\ answers = <<>>
  /\ armed = TRUE
  /\ scen = 0

NextMask ==
  /\ op = "call"
  /\ \/ arg.fn = "note_on" /\ rokot_ble_midi_note_on(arg.channel, arg.d1, arg.d2)
     \/ arg.fn = "note_off" /\ rokot_ble_midi_note_off(arg.channel, arg.d1)
     \/ arg.fn = "control_change" /\ rokot_ble_midi_control_change(arg.channel, arg.d1, arg.d2)
     \/ arg.fn = "program_change" /\ rokot_ble_midi_program_change(arg.channel, arg.d1)
     \/ arg.fn = "pitch_bend" /\ rokot_ble_midi_pitch_bend(arg.channel, arg.value)
     \/ arg.fn = "channel_pressure" /\ rokot_ble_midi_channel_pressure(arg.channel, arg.d1)

SpecMask == InitMask /\ [][NextMask]_vars

\* ------------------------------------------------------------------------
\* All seven senders called once in READY: the typed senders over the whole
\* range of their byte arguments, the pitch bend sender over the whole range
\* of its int16_t argument, and the raw sender over the raw messages.
\* ------------------------------------------------------------------------
Int16 == -32768..32767
InitSenders ==
  /\ ProfileAfterInit(DEVICE_NAME)
  /\ con_handle = 1
  /\ notifications_enabled = TRUE
  /\ battery_notifications_enabled = FALSE
  /\ connection_interval = ROKOT_BLE_MIDI_CONN_INTERVAL_MIN
  /\ rx_callback = NULL
  /\ battery_level = 100
  /\ initialized = TRUE
  /\ op = "call"
  /\ \/ \E fn \in SendOps \ {"send_raw", "pitch_bend"}, a \in MaskArgs :
          arg = [fn |-> fn, channel |-> a[1], d1 |-> a[2],
                 d2 |-> IF fn \in {"note_on", "control_change"} THEN a[3] ELSE 0,
                 value |-> 0]
     \/ \E c \in Channels, v \in Int16 :
          arg = [fn |-> "pitch_bend", channel |-> c, d1 |-> 0, d2 |-> 0, value |-> v]
     \/ \E d \in RawMessages : arg = [fn |-> "send_raw", data |-> d, len |-> Len(d)]
  /\ ret = 0
  /\ wire = <<>>
  /\ cbcalls = <<>>
  /\ answers = <<>>
  /\ armed = TRUE
  /\ scen = 0

NextSenders ==
  /\ op = "call"
  /\ \/ arg.fn = "note_on" /\ rokot_ble_midi_note_on(arg.channel, arg.d1, arg.d2)
     \/ arg.fn = "note_off" /\ rokot_ble_midi_note_off(arg.channel, arg.d1)
     \/ arg.fn = "control_change" /\ rokot_ble_midi_control_change(arg.channel, arg.d1, arg.d2)
     \/ arg.fn = "program_change" /\ rokot_ble_midi_program_change(arg.channel, arg.d1)
     \/ arg.fn = "pitch_bend" /\ rokot_ble_midi_pitch_bend(arg.channel, arg.value)
     \/ arg.fn = "channel_pressure" /\ rokot_ble_midi_channel_pressure(arg.channel, arg.d1)
     \/ arg.fn = "send_raw" /\ rokot_ble_midi_send_raw(arg.data, arg.len)

SpecSenders == InitSenders /\ [][NextSenders]_vars

\* ------------------------------------------------------------------------
\* The battery setter called once with each value of its uint8_t argument, in
\* each combination of link and gates the library can be in: without a link
\* both gates are off, with a link each gate is on or off.
\* ------------------------------------------------------------------------
InitBattery ==
  /\ ProfileAfterInit(DEVICE_NAME)
  /\ con_handle \in Handles \cup {HCI_CON_HANDLE_INVALID}
  /\ notifications_enabled \in BOOLEAN
  /\ battery_notifications_enabled \in BOOLEAN
  /\ con_handle = HCI_CON_HANDLE_INVALID =>
       ~notifications_enabled /\ ~battery_notifications_enabled
  /\ connection_interval =
       IF con_handle = HCI_CON_HANDLE_INVALID THEN 0 ELSE ROKOT_BLE_MIDI_CONN_INTERVAL_MIN
  /\ rx_callback = NULL
  /\ battery_level = 100
  /\ initialized = TRUE
  /\ op = "call"
  /\ \E x \in AllBytes : arg = [fn |-> "set_battery_level", level |-> x]
  /\ ret = 0
  /\ wire = <<>>
  /\ cbcalls = <<>>
  /\ answers = <<>>
  /\ armed = notifications_enabled
  /\ scen = 0

NextBattery ==
  /\ op = "call"
  /\ \E t \in TransportAnswers : rokot_ble_midi_set_battery_level(arg.level, t[1], t[2])

SpecBattery == InitBattery /\ [][NextBattery]_vars

\* ------------------------------------------------------------------------
\* The whole life of the library with its device information: every event
\* and every call in any order, each with a few inputs.
\* ------------------------------------------------------------------------
ProfileNames == {DEVICE_NAME, Str(MaxStrLen)}
ProfileManufacturers == {Str(MaxStrLen)}
ProfileFirmwares == {Str(2)}
ProfileCccdBuffers == {<<0, 0>>, <<1, 0>>}
ProfileInbound == <<128, 128, 144, 60, 100>>
ProfileAnswers == {<<FALSE, 0>>, <<TRUE, 0>>}

NextProfile ==
  \/ \E e \in LinkEvents \cup {btstack_event_state(TRUE)} : rokot_ble_midi_task(<<>>, <<e>>)
  \/ \E b \in Bursts(OpeningEvents) : rokot_ble_midi_task(b.poll, b.wait)
  \/ \E name \in ProfileNames, r \in {0, -1} : rokot_ble_midi_init(name, r)
  \/ rokot_ble_midi_deinit
  \/ rokot_ble_midi_task(<<>>, <<>>)
  \/ \E working \in BOOLEAN : rokot_ble_midi_task(<<btstack_event_state(working)>>, <<>>)
  \/ \E h \in Handles, itv \in Intervals : rokot_ble_midi_task(<<le_connection_complete(h, itv)>>, <<>>)
  \/ \E itv \in Intervals : rokot_ble_midi_task(<<le_connection_update_complete(itv)>>, <<>>)
  \/ rokot_ble_midi_task(<<disconnection_complete>>, <<>>)
  \/ \E h \in Handles, a \in {"BATTERY_CCCD", "MIDI_CCCD"}, b \in ProfileCccdBuffers :
       rokot_ble_midi_task(<<att_write(h, a, b, 2)>>, <<>>)
  \/ rokot_ble_midi_task(<<att_write(ActiveHandle, "MIDI_VALUE", ProfileInbound, Len(ProfileInbound))>>, <<>>)
  \/ \E a \in ReadHandles : rokot_ble_midi_task(<<att_read(ActiveHandle, a, 1, "buf", 3)>>, <<>>)
  \/ \E m \in ProfileManufacturers : rokot_ble_midi_set_manufacturer(m)
  \/ \E f \in ProfileFirmwares : rokot_ble_midi_set_firmware_version(f)
  \/ \E t \in ProfileAnswers : rokot_ble_midi_set_battery_level(40, t[1], t[2])
  \/ \E cb \in {"cb1", NULL} : rokot_ble_midi_set_callback(cb)
  \/ rokot_ble_midi_note_on(31, 60, 100)
  \/ rokot_ble_midi_note_off(31, 60)
  \/ rokot_ble_midi_control_change(31, 7, 100)
  \/ rokot_ble_midi_program_change(31, 5)
  \/ rokot_ble_midi_pitch_bend(31, 0)
  \/ rokot_ble_midi_channel_pressure(31, 100)
  \/ \E n \in {0, 3} : rokot_ble_midi_send_raw(<<144, 60, 100>>, n)

SpecProfile == Init /\ [][NextProfile]_vars

\* ------------------------------------------------------------------------
\* The profile strings: on an initialized library with a link, a profile
\* setter is called with a string of any length, and the characteristics are
\* read at any offset into a buffer of any capacity.
\* ------------------------------------------------------------------------
InitStrings ==
  /\ ProfileAfterInit(DEVICE_NAME)
  /\ con_handle = 1
  /\ notifications_enabled = FALSE
  /\ battery_notifications_enabled = FALSE
  /\ connection_interval = ROKOT_BLE_MIDI_CONN_INTERVAL_MIN
  /\ rx_callback = NULL
  /\ battery_level = 100
  /\ initialized = TRUE
  /\ op = "none"
  /\ arg = <<>>
  /\ ret = 0
  /\ wire = <<>>
  /\ cbcalls = <<>>
  /\ answers = <<>>
  /\ armed = FALSE
  /\ scen = 0

NextStrings ==
  \/ /\ op = "none"
     /\ \E s \in Strings : rokot_ble_midi_set_manufacturer(s)
  \/ /\ op = "none"
     /\ \E s \in Strings : rokot_ble_midi_set_firmware_version(s)
  \/ /\ op \in {"none", "set_manufacturer", "set_firmware_version"}
     /\ \E a \in {"MANUFACTURER_VALUE", "FIRMWARE_VALUE"}, o \in 0..MaxOffset,
           c \in 0..MaxCapacity :
          rokot_ble_midi_task(<<att_read(con_handle, a, o, "buf", c)>>, <<>>)
  \/ /\ op \in {"none", "set_manufacturer", "set_firmware_version"}
     /\ \E a \in {"MANUFACTURER_VALUE", "FIRMWARE_VALUE"}, o \in 0..MaxOffset :
          rokot_ble_midi_task(<<att_read(con_handle, a, o, NULL, 0)>>, <<>>)

SpecStrings == InitStrings /\ [][NextStrings]_vars

\* ------------------------------------------------------------------------
\* Initialization with a device name of any length, repeated, undone, and
\* followed by the stack coming up.
\* ------------------------------------------------------------------------
NextInit ==
  \/ \E name \in Strings, r \in {0, -1} : rokot_ble_midi_init(name, r)
  \/ rokot_ble_midi_deinit
  \/ \E working \in BOOLEAN : rokot_ble_midi_task(<<btstack_event_state(working)>>, <<>>)

SpecInit == Init /\ [][NextInit]_vars

\* ------------------------------------------------------------------------
\* Inbound MIDI: on an initialized library with a link, the central writes
\* the MIDI value with any two prefix bytes, a few messages and every length,
\* while the application registers and removes its callback.
\* ------------------------------------------------------------------------
InboundBodies == {<<144, 60, 100, 145>>, <<176, 7, 127, 0>>}
PrefixedBuffers ==
  {SubSeq(<<h, t>> \o m, 1, k) :
     h \in EdgeBytes, t \in EdgeBytes, m \in InboundBodies, k \in 0..MaxWriteLen}

NextInbound ==
  \/ \E cb \in {"cb1", NULL} : rokot_ble_midi_set_callback(cb)
  \/ \E b \in PrefixedBuffers : rokot_ble_midi_task(<<att_write(ActiveHandle, "MIDI_VALUE", b, Len(b))>>, <<>>)

SpecInbound == InitStrings /\ [][NextInbound]_vars

\* ------------------------------------------------------------------------
\* Properties
\* ------------------------------------------------------------------------
\* the MIDI bytes the last send operation was asked to send
SentMidi(o, a) ==
  CASE o = "note_on" -> note_on_midi(a.channel, a.d1, a.d2)
    [] o = "note_off" -> note_off_midi(a.channel, a.d1)
    [] o = "control_change" -> control_change_midi(a.channel, a.d1, a.d2)
    [] o = "program_change" -> program_change_midi(a.channel, a.d1)
    [] o = "pitch_bend" -> pitch_bend_midi(a.channel, a.value)
    [] o = "channel_pressure" -> channel_pressure_midi(a.channel, a.d1)
    [] o = "send_raw" -> a.data

\* the transport calls of a step of the run loop that the handlers made:
\* all but the poll and the wait
Dispatched(w) == SelectSeq(w, LAMBDA c : <<c>> \notin {RunLoop.before, RunLoop.after})

\* a step of the run loop begins with the poll and makes the wait once, after
\* the calls of the handlers the poll ran and before those of the handlers
\* the wait ran
InRunLoop(w) ==
  /\ Len(w) >= 2
  /\ SubSeq(w, 1, 1) = RunLoop.before
  /\ Len(w) = Len(Dispatched(w)) + 2
  /\ \E i \in 2..Len(w) : SubSeq(w, i, i) = RunLoop.after

ValidLength(o, a) == o = "send_raw" => a.len \in 1..3

\* C1: from DISCONNECTED, the events link-complete, MIDI CCCD-enable, MIDI
\* CCCD-disable, disconnect leave get_state() at CONNECTED, READY, CONNECTED,
\* DISCONNECTED in turn, and the interval is 0 after the disconnect.
C1_ScenarioStates ==
  /\ scen = 1 => rokot_ble_midi_get_state = ROKOT_BLE_MIDI_CONNECTED
  /\ scen = 2 => rokot_ble_midi_get_state = ROKOT_BLE_MIDI_READY
  /\ scen = 3 => rokot_ble_midi_get_state = ROKOT_BLE_MIDI_CONNECTED
  /\ scen = 4 => /\ rokot_ble_midi_get_state = ROKOT_BLE_MIDI_DISCONNECTED
                 /\ rokot_ble_midi_get_connection_interval = 0

C1_Witness ==
  /\ scen = 4
  /\ op = "disconnection_complete"
  /\ arg.itv # 0

\* C2: a disconnect event, whatever the state it arrives in, leaves no
\* Connection, both gates disabled and the interval 0, all in the one step.
C2_DisconnectClearsAll ==
  op = "disconnection_complete" =>
    /\ con_handle = HCI_CON_HANDLE_INVALID
    /\ ~notifications_enabled
    /\ ~battery_notifications_enabled
    /\ connection_interval = 0

C2_Witness ==
  /\ op = "disconnection_complete"
  /\ arg.state = ROKOT_BLE_MIDI_READY
  /\ arg.battery
  /\ arg.itv # 0
  /\ con_handle = HCI_CON_HANDLE_INVALID

\* C3: is_connected() holds exactly when get_state() is CONNECTED or READY,
\* is_ready() exactly when it is READY, and get_state() is never READY
\* without a recorded Connection.
C3_QueriesAgree ==
  /\ rokot_ble_midi_is_connected <=>
       rokot_ble_midi_get_state \in {ROKOT_BLE_MIDI_CONNECTED, ROKOT_BLE_MIDI_READY}
  /\ rokot_ble_midi_is_ready <=> rokot_ble_midi_get_state = ROKOT_BLE_MIDI_READY
  /\ ~(rokot_ble_midi_get_state = ROKOT_BLE_MIDI_READY /\ con_handle = HCI_CON_HANDLE_INVALID)

C3_Witness ==
  /\ op = "deinit"
  /\ arg.state = ROKOT_BLE_MIDI_READY
  /\ ~rokot_ble_midi_is_connected
  /\ rokot_ble_midi_get_state = ROKOT_BLE_MIDI_DISCONNECTED

\* C4: a typed send or a raw send of valid length made while the state is
\* not READY returns NotReady (-1) and makes no call to the transport.
C4_NotReadyNoTransport ==
  [][(/\ op' \in SendOps
      /\ ValidLength(op', arg')
      /\ rokot_ble_midi_get_state # ROKOT_BLE_MIDI_READY)
     => (ret' = -1 /\ wire' = <<>>)]_vars

C4_Witness ==
  /\ op \in SendOps \ {"send_raw"}
  /\ rokot_ble_midi_get_state = ROKOT_BLE_MIDI_CONNECTED
  /\ arg.t = <<TRUE, 0>>
  /\ ret = -1

\* C5: a MIDI notification is handed to the transport only in state READY,
\* after a MIDI CCCD-enable write that no disconnect, deinit or MIDI
\* CCCD-disable write has followed.
C5_NotifyOnlyWhenReady ==
  [][Len(MidiNotifies(wire')) > 0
     => (armed /\ rokot_ble_midi_get_state = ROKOT_BLE_MIDI_READY /\ rokot_ble_midi_is_ready)]_vars

C5_Witness ==
  /\ Len(MidiNotifies(wire)) = 1
  /\ armed
  /\ op = "note_on"

\* C6: in state READY with the transport busy, a send returns TransportBusy
\* (-2), hands over no notification and keeps nothing: the state is as
\* before, and a MIDI notification only ever leaves in the step of a send
\* that the transport accepted, one per send.
C6_BusyNotQueued ==
  [][/\ (/\ op' \in SendOps
         /\ ValidLength(op', arg')
         /\ rokot_ble_midi_get_state = ROKOT_BLE_MIDI_READY
         /\ arg'.t[1] = FALSE)
        => (/\ ret' = -2
            /\ Len(MidiNotifies(wire')) = 0
            /\ Len(wire') = 1
            /\ stateVars' = stateVars)
     /\ Len(MidiNotifies(wire')) > 0
        => (/\ op' \in SendOps
            /\ arg'.t[1] = TRUE
            /\ Len(MidiNotifies(wire')) = 1
            /\ MidiNotifies(wire')[1].data = <<128, 128>> \o SentMidi(op', arg'))]_vars

C6_Witness ==
  /\ op = "send_raw"
  /\ arg.len = 3
  /\ arg.t[1] = FALSE
  /\ rokot_ble_midi_get_state = ROKOT_BLE_MIDI_READY
  /\ ret = -2

\* C7: in state READY with the transport accepting, a send of MIDI bytes m
\* (1 to 3 of them) makes exactly one notification on the MIDI characteristic,
\* with payload 0x80 0x80 followed by m, and returns 0.
C7_SendPayload ==
  [][(/\ op' \in SendOps
      /\ ValidLength(op', arg')
      /\ rokot_ble_midi_get_state = ROKOT_BLE_MIDI_READY
      /\ arg'.t = <<TRUE, 0>>)
     => (/\ ret' = 0
         /\ Len(SentMidi(op', arg')) \in 1..3
         /\ wire' = <<Call("att_server_can_send_packet_now", con_handle, "-", <<>>, 1),
                      Call("att_server_notify", con_handle, "MIDI_VALUE",
                           <<128, 128>> \o SentMidi(op', arg'), 0)>>)]_vars

C7_Witness ==
  /\ op = "send_raw"
  /\ arg.len = 1
  /\ ret = 0
  /\ Len(MidiNotifies(wire)) = 1
  /\ MidiNotifies(wire)[1].data = <<128, 128>> \o arg.data

\* a central that echoes the packet of the send that has just succeeded
Echoed ==
  /\ op \in SendOps
  /\ ret = 0
  /\ Len(MidiNotifies(wire)) = 1
  /\ op' = "att_write"
  /\ arg'.att = "MIDI_VALUE"
  /\ arg'.buffer = MidiNotifies(wire)[1].data
  /\ rx_callback # NULL

Pad3(m) == [i \in 1..3 |-> IF i <= Len(m) THEN m[i] ELSE 0]

\* C8 as stated: the packet of every sent message of 1, 2 or 3 bytes, written
\* back to the MIDI characteristic, reaches the callback as that message.
C8_RoundTripAll ==
  [][Echoed =>
       LET m == Pad3(SentMidi(op, arg))
       IN cbcalls' = <<RxCall(rx_callback, m[1], m[2], m[3])>>]_vars

\* C8 (amended): the round trip holds for messages of 3 bytes, delivers a
\* 2-byte message with data2 = 0, and delivers nothing for a 1-byte message.
C8_RoundTripLong ==
  [][Echoed =>
       LET m == SentMidi(op, arg)
       IN /\ Len(m) = 3 => cbcalls' = <<RxCall(rx_callback, m[1], m[2], m[3])>>
          /\ Len(m) = 2 => cbcalls' = <<RxCall(rx_callback, m[1], m[2], 0)>>
          /\ Len(m) = 1 => cbcalls' = <<>>]_vars

C8_Witness ==
  /\ op = "att_write"
  /\ arg.att = "MIDI_VALUE"
  /\ arg.buffer = <<128, 128, 248, 128, 255>>
  /\ cbcalls = <<RxCall(rx_callback, 248, 128, 255)>>

\* C9: a value write of n bytes b on the MIDI characteristic, with a callback
\* registered, invokes it once with (b[2], b[3], b[4]) when n >= 5, once with
\* (b[2], b[3], 0) when n = 4 and not at all when n <= 3; the write always
\* reports success: att_write_callback answers the stack 0.
C9_InboundDecode ==
  (op = "att_write" /\ arg.att = "MIDI_VALUE") =>
    /\ answers = <<Answer(0, <<>>)>>
    /\ rx_callback # NULL =>
         LET b == arg.buffer
             n == arg.size
         IN /\ n >= 5 => cbcalls = <<RxCall(rx_callback, b[3], b[4], b[5])>>
            /\ n = 4 => cbcalls = <<RxCall(rx_callback, b[3], b[4], 0)>>
            /\ n <= 3 => cbcalls = <<>>

C9_Witness ==
  /\ op = "att_write"
  /\ arg.att = "MIDI_VALUE"
  /\ arg.buffer = <<128, 128, 144, 60, 100, 145>>
  /\ cbcalls = <<RxCall("cb2", 144, 60, 100)>>
  /\ answers = <<Answer(0, <<>>)>>

\* the message-type constant of each typed sender
TypeOf(o) ==
  CASE o = "note_on" -> 144
    [] o = "note_off" -> 128
    [] o = "control_change" -> 176
    [] o = "program_change" -> 192
    [] o = "pitch_bend" -> 224
    [] o = "channel_pressure" -> 208

\* C10: every typed sender emits the status byte type | (channel & 0x0F) for
\* every channel 0..255 and every uint8 data argument a as a & 0x7F, and
\* rejects no argument value.
C10_MaskingLaw ==
  (op \in SendOps \ {"send_raw"}) =>
    /\ ret \in {0, -2, -3}
    /\ arg.t[1] => Len(MidiNotifies(wire)) = 1
    /\ arg.t = <<TRUE, 0>> => ret = 0
    /\ \A i \in 1..Len(MidiNotifies(wire)) :
         LET d == MidiNotifies(wire)[i].data
         IN /\ d[3] = TypeOf(op) + (arg.channel % 16)
            /\ op \in {"note_on", "control_change"}
                 => (Len(d) = 5 /\ d[4] = arg.d1 % 128 /\ d[5] = arg.d2 % 128)
            /\ op = "note_off" => (Len(d) = 5 /\ d[4] = arg.d1 % 128 /\ d[5] = 0)
            /\ op \in {"program_change", "channel_pressure"}
                 => (Len(d) = 4 /\ d[4] = arg.d1 % 128)

C10_Witness ==
  /\ op = "note_on"
  /\ arg.channel = 255
  /\ arg.d1 = 228
  /\ arg.d2 = 255
  /\ ret = 0
  /\ MidiNotifies(wire)[1].data = <<128, 128, 159, 100, 127>>

TypedOps == SendOps \ {"send_raw"}

\* every MIDI byte after the status byte, in every MIDI notification among
\* the transport calls w, is in 0..127 (a packet is header, timestamp, status,
\* data bytes)
DataBytes7Bit(w) ==
  \A i \in 1..Len(MidiNotifies(w)) :
    \A k \in 4..Len(MidiNotifies(w)[i].data) : MidiNotifies(w)[i].data[k] \in 0..127

\* C11 as stated: in every MIDI notification emitted by any of the seven
\* send operations, for any caller-supplied values, every data byte has its
\* top bit clear.
C11_DataBytesAllSenders == op \in SendOps => DataBytes7Bit(wire)

\* C11 (amended): in every MIDI notification emitted by one of the six typed
\* senders, for any caller-supplied values, every data byte has its top bit
\* clear; the raw sender forwards the caller's bytes unchanged.
C11_DataBytesTyped ==
  /\ op \in TypedOps => DataBytes7Bit(wire)
  /\ op = "send_raw" =>
       \A i \in 1..Len(MidiNotifies(wire)) :
         MidiNotifies(wire)[i].data = <<128, 128>> \o SubSeq(arg.data, 1, arg.len)

C11_Witness ==
  /\ op = "control_change"
  /\ arg.d1 = 255
  /\ arg.d2 = 128
  /\ Len(MidiNotifies(wire)) = 1
  /\ SubSeq(MidiNotifies(wire)[1].data, 4, 5) = <<127, 0>>

\* C12: for every pitch-bend value v in -8192..8191 the Pitch Bend sender
\* emits LSB = (v + 8192) mod 128 and MSB = (v + 8192) div 128; -8192 gives
\* (0x00, 0x00), 0 gives (0x00, 0x40) and 8191 gives (0x7F, 0x7F).
C12_PitchBendSplit ==
  (op = "pitch_bend" /\ arg.value \in -8192..8191) =>
    /\ arg.t[1] => Len(MidiNotifies(wire)) = 1
    /\ \A i \in 1..Len(MidiNotifies(wire)) :
         LET d == MidiNotifies(wire)[i].data
         IN /\ Len(d) = 5
            /\ d[4] = (arg.value + 8192) % 128
            /\ d[5] = (arg.value + 8192) \div 128
            /\ arg.value = -8192 => <<d[4], d[5]>> = <<0, 0>>
            /\ arg.value = 0 => <<d[4], d[5]>> = <<0, 64>>
            /\ arg.value = 8191 => <<d[4], d[5]>> = <<127, 127>>

C12_Witness ==
  /\ op = "pitch_bend"
  /\ arg.value = 8191
  /\ ret = 0
  /\ Len(MidiNotifies(wire)) = 1
  /\ SubSeq(MidiNotifies(wire)[1].data, 4, 5) = <<127, 127>>

\* the Battery notifications among the transport calls w
BatteryNotifies(w) ==
  SelectSeq(w, LAMBDA c : c.fn = "att_server_notify" /\ c.att = "BATTERY_VALUE")

Min100(x) == IF x > 100 THEN 100 ELSE x

\* C13: the stored battery level is always within 0..100: it is 100
\* initially, set_battery_level(x) stores min(x, 100), no other event or call
\* changes it, and get_battery_level() returns the stored value.
C13_BatteryLevel ==
  /\ battery_level = 100
  /\ [](battery_level \in 0..100 /\ rokot_ble_midi_get_battery_level = battery_level)
  /\ [][IF op' = "set_battery_level"
        THEN rokot_ble_midi_get_battery_level' = Min100(arg'.level)
        ELSE rokot_ble_midi_get_battery_level' = rokot_ble_midi_get_battery_level]_vars

C13_Witness ==
  /\ op = "set_battery_level"
  /\ arg.level = 150
  /\ rokot_ble_midi_get_battery_level = 100
  /\ wire = <<>>

\* C14 as stated: if the Battery gate is enabled and a Connection exists,
\* set_battery_level(x) triggers exactly one Battery notification call whose
\* payload is the single byte min(x, 100); otherwise it triggers none.
C14_BatteryNotifyAlways ==
  op = "set_battery_level" =>
    IF battery_notifications_enabled /\ rokot_ble_midi_is_connected
    THEN /\ Len(BatteryNotifies(wire)) = 1
         /\ BatteryNotifies(wire)[1].data = <<Min100(arg.level)>>
    ELSE BatteryNotifies(wire) = <<>>

\* what the setter does: it notifies only when, in addition, the transport
\* can accept a packet now; when the transport is busy it asks and sends
\* nothing, and without gate or link it makes no transport call
C14_BatteryNotifyWhenFree ==
  op = "set_battery_level" =>
    /\ MidiNotifies(wire) = <<>>
    /\ IF battery_notifications_enabled /\ rokot_ble_midi_is_connected
       THEN IF arg.t[1]
            THEN /\ Len(wire) = 2
                 /\ Len(BatteryNotifies(wire)) = 1
                 /\ BatteryNotifies(wire)[1].data = <<Min100(arg.level)>>
                 /\ BatteryNotifies(wire)[1].h = con_handle
            ELSE /\ Len(wire) = 1
                 /\ wire[1].fn = "att_server_can_send_packet_now"
       ELSE wire = <<>>

\* C15: the two notification gates are independent: a CCCD write on the
\* Battery characteristic never changes the MIDI gate and a CCCD write on the
\* MIDI characteristic never changes the Battery gate (so that a battery
\* notification can be sent in state CONNECTED, and a MIDI send can succeed
\* with the Battery gate disabled).
C15_GatesIndependent ==
  [][/\ (op' = "att_write" /\ arg'.att = "BATTERY_CCCD") =>
          notifications_enabled' = notifications_enabled
     /\ (op' = "att_write" /\ arg'.att = "MIDI_CCCD") =>
          battery_notifications_enabled' = battery_notifications_enabled]_vars

C15_Witness ==
  /\ op = "set_battery_level"
  /\ rokot_ble_midi_get_state = ROKOT_BLE_MIDI_CONNECTED
  /\ battery_notifications_enabled
  /\ ~notifications_enabled
  /\ Len(BatteryNotifies(wire)) = 1
  /\ BatteryNotifies(wire)[1].res = 0

\* the four combinations of the gates while connected, and a MIDI send that
\* succeeds with the Battery gate disabled
C15_BothOff ==
  rokot_ble_midi_is_connected /\ ~notifications_enabled /\ ~battery_notifications_enabled
C15_MidiOnly ==
  /\ rokot_ble_midi_is_connected /\ notifications_enabled /\ ~battery_notifications_enabled
  /\ op \in SendOps /\ ret = 0
C15_BothOn ==
  rokot_ble_midi_is_connected /\ notifications_enabled /\ battery_notifications_enabled

\* C16: a CCCD write on the MIDI or the Battery characteristic enables the
\* corresponding gate if and only if the 16-bit little-endian configuration
\* value equals 0x0001, every other value disables it, and in both cases the
\* handle of the writing connection becomes the recorded connection handle.
C16_CccdValue ==
  (op = "att_write" /\ arg.att \in {"MIDI_CCCD", "BATTERY_CCCD"}) =>
    /\ (IF arg.att = "MIDI_CCCD" THEN notifications_enabled
        ELSE battery_notifications_enabled)
         = (arg.buffer[1] + 256 * arg.buffer[2] = 1)
    /\ con_handle = arg.h
    /\ rokot_ble_midi_is_connected

C16_Witness ==
  /\ op = "att_write"
  /\ arg.att = "BATTERY_CCCD"
  /\ arg.buffer = <<3, 0>>
  /\ arg.h = 2
  /\ con_handle = 2
  /\ ~battery_notifications_enabled

\* what a typed send of the MIDI bytes m does when the transport answers t:
\* its result and the transport calls it makes
TypedOutcome(m, t) ==
  IF ~rokot_ble_midi_is_ready
  THEN [ret |-> -1, wire |-> <<>>]
  ELSE IF ~t[1]
  THEN [ret |-> -2,
        wire |-> <<Call("att_server_can_send_packet_now", con_handle, "-", <<>>, 0)>>]
  ELSE [ret |-> IF t[2] = 0 THEN 0 ELSE -3,
        wire |-> <<Call("att_server_can_send_packet_now", con_handle, "-", <<>>, 1),
                   Call("att_server_notify", con_handle, "MIDI_VALUE", <<128, 128>> \o m, t[2])>>]

\* C17: send_raw with a length outside 1..3 returns InvalidInput (-1) and
\* makes no call to the transport, in every state including READY with the
\* transport free; with length 1..3 it behaves exactly like a typed send of
\* those bytes (the typed senders and the raw sender follow the same law).
C17_RawLength ==
  /\ (op = "send_raw" /\ arg.len \notin 1..3) => (ret = -1 /\ wire = <<>> /\ cbcalls = <<>>)
  /\ (op = "send_raw" /\ arg.len \in 1..3) =>
       [ret |-> ret, wire |-> wire] = TypedOutcome(SubSeq(arg.data, 1, arg.len), arg.t)
  /\ op \in TypedOps =>
       [ret |-> ret, wire |-> wire] = TypedOutcome(SentMidi(op, arg), arg.t)

C17_Witness ==
  /\ op = "send_raw"
  /\ arg.len = 0
  /\ rokot_ble_midi_get_state = ROKOT_BLE_MIDI_READY
  /\ ret = -1
  /\ wire = <<>>

\* the last send ended with a notification the transport accepted
Accepted ==
  /\ Len(MidiNotifies(wire)) = 1
  /\ MidiNotifies(wire)[1].res = 0

\* C18 as stated: every call of any of the seven send operations, in every
\* state and for every transport response, returns success (0), not-ready,
\* transport-busy or invalid-input; success only when a notification was
\* accepted by the transport; every non-success result is negative.
C18_FourOutcomes ==
  op \in SendOps =>
    /\ \/ ret = 0
       \/ ret = -1 /\ ValidLength(op, arg) /\ ~rokot_ble_midi_is_ready
       \/ ret = -2 /\ ValidLength(op, arg) /\ rokot_ble_midi_is_ready /\ ~arg.t[1]
       \/ ret = -1 /\ ~ValidLength(op, arg)
    /\ ret = 0 => Accepted
    /\ ret # 0 => ret < 0

\* C18 (amended): every call of any of the seven send operations returns
\* the outcome its state and the transport determine: -1 for a raw length
\* outside 1..3, -1 when not READY, -2 when the transport cannot accept a
\* packet, -3 when the transport took the notification call but refused it,
\* and 0 otherwise; 0 only when a notification was accepted; every
\* non-success result is negative.
C18_FiveOutcomes ==
  op \in SendOps =>
    /\ ret = (IF ~ValidLength(op, arg) THEN -1
              ELSE IF ~rokot_ble_midi_is_ready THEN -1
              ELSE IF ~arg.t[1] THEN -2
              ELSE IF arg.t[2] # 0 THEN -3
              ELSE 0)
    /\ ret = 0 <=> Accepted
    /\ ret # 0 => ret < 0

C18_Witness ==
  /\ op \in SendOps
  /\ ret = -3
  /\ Len(MidiNotifies(wire)) = 1
  /\ MidiNotifies(wire)[1].res # 0

\* the outcome of the last send, by its cause
OutcomeOf ==
  IF op \notin SendOps THEN "none"
  ELSE IF ~ValidLength(op, arg) THEN "InvalidInput"
  ELSE IF ~rokot_ble_midi_is_ready THEN "NotReady"
  ELSE IF ~arg.t[1] THEN "TransportBusy"
  ELSE "sent"

\* C19: the value returned by a send identifies its outcome: two sends
\* whose outcomes are different ones of NotReady, TransportBusy and
\* InvalidInput return different values, so a caller of send_raw can tell an
\* invalid length from a not-ready link by the return value alone.
C19_DistinctResults ==
  [][(/\ OutcomeOf \in {"NotReady", "TransportBusy", "InvalidInput"}
      /\ OutcomeOf' \in {"NotReady", "TransportBusy", "InvalidInput"}
      /\ OutcomeOf' # OutcomeOf)
       => ret' # ret]_vars

\* C20: whenever is_connected() is false, get_connection_interval() returns
\* 0, in every reachable state.
C20_IntervalZeroWhenDisconnected ==
  ~rokot_ble_midi_is_connected => rokot_ble_midi_get_connection_interval = 0

\* the stored profile strings
ProfileStrings == <<device_name, manufacturer, firmware_version>>

\* C21: a connection-interval-update event replaces the recorded interval
\* with the event's value and changes nothing else: get_state(), the recorded
\* handle, both gates, the battery level, the profile strings and the
\* callback are the same before and after, and no renegotiation request (no
\* transport call at all) is issued.
C21_UpdateFrame ==
  [][op' = "connection_update_complete" =>
       /\ connection_interval' = arg'.itv
       /\ rokot_ble_midi_get_state' = rokot_ble_midi_get_state
       /\ con_handle' = con_handle
       /\ notifications_enabled' = notifications_enabled
       /\ battery_notifications_enabled' = battery_notifications_enabled
       /\ rokot_ble_midi_get_battery_level' = rokot_ble_midi_get_battery_level
       /\ ProfileStrings' = ProfileStrings
       /\ <<adv_data, scan_resp_data, scan_resp_data_len>>'
            = <<adv_data, scan_resp_data, scan_resp_data_len>>
       /\ rx_callback' = rx_callback
       /\ initialized' = initialized
       /\ Dispatched(wire') = <<>>
       /\ cbcalls' = <<>>]_vars

C21_Witness ==
  /\ op = "connection_update_complete"
  /\ arg.itv = ROKOT_BLE_MIDI_CONN_INTERVAL_MAX
  /\ connection_interval = ROKOT_BLE_MIDI_CONN_INTERVAL_MAX
  /\ rokot_ble_midi_get_state = ROKOT_BLE_MIDI_READY
  /\ battery_notifications_enabled
  /\ battery_level = 40
  /\ rx_callback = "cb1"
  /\ strlen(manufacturer) = MANUFACTURER_SIZE - 1
  /\ InRunLoop(wire)
  /\ Dispatched(wire) = <<>>

\* C22: init returns AlreadyInitialized (-1) exactly when the library is
\* already initialized, and then changes no state and makes no transport
\* call; it returns TransportInitFailed (-2) exactly when the library is
\* uninitialized and transport initialization fails; the initialized flag
\* becomes true only when init returns success; after deinit the library is
\* uninitialized, so a new init is accepted again.
C22_InitOutcomes ==
  [][/\ op' = "init" =>
          /\ ret' \in {0, -1, -2}
          /\ ret' = -1 <=> initialized
          /\ ret' = -1 => /\ stateVars' = stateVars
                          /\ profileVars' = profileVars
                          /\ wire' = <<>>
          /\ ret' = -2 <=> (~initialized /\ arg'.cyw43 # 0)
          /\ ret' = -2 => ~initialized'
          /\ ret' = 0 => initialized'
     /\ (~initialized /\ initialized') => (op' = "init" /\ ret' = 0)
     /\ op' = "deinit" => ~initialized'
     /\ (op = "deinit" /\ op' = "init") => ret' # -1]_vars

C22_Witness ==
  /\ op = "init"
  /\ ret = -1
  /\ arg.name = Str(MaxStrLen)
  /\ ProfileAfterInit(DEVICE_NAME)
  /\ rokot_ble_midi_is_connected
  /\ wire = <<>>

\* the string held in a character array: its bytes before the first zero
StringIn(a) == SubSeq(a, 1, strlen(a))

MinOf(a, b) == IF a < b THEN a ELSE b

\* the array behind a profile string characteristic
StoredArray(att) == IF att = "MANUFACTURER_VALUE" THEN manufacturer ELSE firmware_version

\* C23: a read of the manufacturer or firmware characteristic with stored
\* string s, byte offset o and buffer capacity c returns the bytes of s from
\* position o, min(len(s) - o, c) of them when o <= len(s) and zero bytes when
\* o >= len(s); it never fails and never reads outside the stored string.
C23_ProfileRead ==
  (/\ op = "att_read"
   /\ arg.att \in {"MANUFACTURER_VALUE", "FIRMWARE_VALUE"}
   /\ arg.buffer # NULL) =>
    LET str == StringIn(StoredArray(arg.att))
        o == arg.offset
        n == IF o <= Len(str) THEN MinOf(Len(str) - o, arg.size) ELSE 0
    IN /\ answers = <<Answer(n, [k \in 1..n |-> str[o + k]])>>
       /\ answers[1].ret >= 0
       /\ answers[1].ret <= arg.size
       /\ answers[1].ret > 0 => o + answers[1].ret <= Len(str)
       /\ Dispatched(wire) = <<>>
       /\ cbcalls = <<>>

C23_Witness ==
  /\ op = "att_read"
  /\ arg.att = "MANUFACTURER_VALUE"
  /\ StringIn(manufacturer) = Str(MANUFACTURER_SIZE - 1)
  /\ arg.offset = 29
  /\ arg.size = 33
  /\ answers = <<Answer(2, <<94, 95>>)>>

\* C24: set_manufacturer(s) stores the first min(len(s), 31) characters of s
\* and set_firmware_version(s) the first min(len(s), 15) characters of s,
\* each followed by a terminator inside its fixed storage (32 and 16 bytes),
\* for every input string; a later read of the characteristic from offset 0
\* into a buffer that is large enough returns exactly that stored prefix.
C24_ProfileSetters ==
  /\ [](/\ Len(manufacturer) = MANUFACTURER_SIZE
        /\ manufacturer[MANUFACTURER_SIZE] = 0
        /\ Len(firmware_version) = FIRMWARE_VERSION_SIZE
        /\ firmware_version[FIRMWARE_VERSION_SIZE] = 0
        /\ (op = "set_manufacturer" =>
              StringIn(manufacturer) = SubSeq(arg.s, 1, MinOf(Len(arg.s), 31)))
        /\ (op = "set_firmware_version" =>
              StringIn(firmware_version) = SubSeq(arg.s, 1, MinOf(Len(arg.s), 15))))
  /\ [][(/\ op' = "att_read"
         /\ arg'.buffer # NULL
         /\ arg'.offset = 0
         /\ arg'.size >= MANUFACTURER_SIZE - 1) =>
          /\ (op = "set_manufacturer" /\ arg'.att = "MANUFACTURER_VALUE") =>
               answers'[1].copied = SubSeq(arg.s, 1, MinOf(Len(arg.s), 31))
          /\ (op = "set_firmware_version" /\ arg'.att = "FIRMWARE_VALUE") =>
               answers'[1].copied = SubSeq(arg.s, 1, MinOf(Len(arg.s), 15))]_vars

C24_Witness ==
  /\ op = "set_firmware_version"
  /\ Len(arg.s) = 33
  /\ StringIn(firmware_version) = Str(15)
  /\ firmware_version[FIRMWARE_VERSION_SIZE] = 0

\* the last operation was an inbound MIDI value write long enough to decode
DecodableWrite == op = "att_write" /\ arg.att = "MIDI_VALUE" /\ arg.size >= 4

\* C25: after set_callback(cb), every decodable inbound MIDI value write
\* invokes exactly the most recently registered callback once and never a
\* previously registered one; after set_callback(NULL) no callback is invoked
\* and inbound writes are still acknowledged as successful (0).
C25_LatestCallback ==
  [][/\ op' = "set_callback" => rx_callback' = arg'.cb
     /\ op' # "set_callback" => rx_callback' = rx_callback
     /\ DecodableWrite' =>
          /\ answers' = <<Answer(0, <<>>)>>
          /\ rx_callback = NULL => cbcalls' = <<>>
          /\ rx_callback # NULL => (Len(cbcalls') = 1 /\ cbcalls'[1].cb = rx_callback)
     /\ (op = "set_callback" /\ DecodableWrite') =>
          /\ arg.cb = NULL => cbcalls' = <<>>
          /\ arg.cb # NULL => (Len(cbcalls') = 1 /\ cbcalls'[1].cb = arg.cb)]_vars

C25_Witness ==
  /\ DecodableWrite
  /\ arg.size = 4
  /\ rx_callback = "cb1"
  /\ Len(cbcalls) = 1
  /\ cbcalls[1].cb = "cb1"
  /\ answers = <<Answer(0, <<>>)>>

\* the scan response: the bytes of scan_resp_data that count
ScanResponse == SubSeq(scan_resp_data, 1, scan_resp_data_len)

\* C26: for every device name, the scan response built at init is a single
\* complete-local-name record: byte 0 = n + 1, byte 1 = the
\* complete-local-name type, followed by the first n bytes of the name, where
\* n = min(len(name), 29); its total length n + 2 never exceeds 31 bytes; and
\* this is the scan response handed to the stack when it comes up.
C26_ScanResponse ==
  /\ (op = "init" /\ ret # -1) =>
       LET n == MinOf(Len(arg.name), 29)
       IN /\ scan_resp_data_len = n + 2
          /\ scan_resp_data_len <= 31
          /\ ScanResponse =
               <<n + 1, BLUETOOTH_DATA_TYPE_COMPLETE_LOCAL_NAME>> \o SubSeq(arg.name, 1, n)
  /\ initialized =>
       /\ Len(ScanResponse) \in 2..31
       /\ ScanResponse[1] = Len(ScanResponse) - 1
       /\ ScanResponse[2] = BLUETOOTH_DATA_TYPE_COMPLETE_LOCAL_NAME
  /\ (op = "btstack_event_state" /\ arg.working) =>
       /\ Dispatched(wire)[3].fn = "gap_scan_response_set_data"
       /\ Dispatched(wire)[3].data = ScanResponse

C26_Witness ==
  /\ op = "init"
  /\ ret = 0
  /\ Len(arg.name) = 33
  /\ scan_resp_data_len = 31
  /\ ScanResponse = <<30, 9>> \o Str(29)

\* the advertising records of a payload: each is a length byte followed by
\* that many bytes (type and value)
RECURSIVE AdRecords(_)
AdRecords(d) ==
  IF d = <<>> THEN <<>>
  ELSE IF d[1] + 1 > Len(d) THEN <<d>>
  ELSE <<SubSeq(d, 1, d[1] + 1)>> \o AdRecords(SubSeq(d, d[1] + 2, Len(d)))

\* C27 as stated: the fixed advertising payload, made of the flags record
\* and the 128-bit BLE-MIDI service UUID record, is 20 bytes in total.
C27_AdvLength20 ==
  /\ Len(adv_data) = 20
  /\ (op = "btstack_event_state" /\ arg.working) => Len(Dispatched(wire)[2].data) = 20

\* C27 (amended): the fixed advertising payload, made of the flags record
\* (3 bytes) and the 128-bit BLE-MIDI service UUID record (18 bytes), is 21
\* bytes in total, in the buffer and as handed to the stack.
C27_AdvLength21 ==
  /\ Len(adv_data) = 21
  /\ Len(AdRecords(adv_data)) = 2
  /\ AdRecords(adv_data)[1][2] = BLUETOOTH_DATA_TYPE_FLAGS
  /\ Len(AdRecords(adv_data)[1]) = 3
  /\ AdRecords(adv_data)[2][2] = BLUETOOTH_DATA_TYPE_COMPLETE_LIST_OF_128_BIT_SERVICE_CLASS_UUIDS
  /\ Len(AdRecords(adv_data)[2]) = 18
  /\ (op = "btstack_event_state" /\ arg.working) =>
       /\ Dispatched(wire)[2].fn = "gap_advertisements_set_data"
       /\ Len(Dispatched(wire)[2].data) = 21

C27_Witness ==
  /\ op = "btstack_event_state"
  /\ arg.working
  /\ InRunLoop(wire)
  /\ Len(Dispatched(wire)) = 4
  /\ Dispatched(wire)[2].fn = "gap_advertisements_set_data"
  /\ Len(Dispatched(wire)[2].data) = 21

\* the bytes of UUID 03B80E5A-EDE8-4B33-A751-6CE34EC4C700 as printed
BleMidiServiceUuid ==
  <<3, 184, 14, 90, 237, 232, 75, 51, 167, 81, 108, 227, 78, 196, 199, 0>>

Reversed(q) == [i \in 1..Len(q) |-> q[Len(q) + 1 - i]]

\* C28: the advertising payload is a 3-byte flags record (length 0x02, flags
\* type, 0x06) followed by an 18-byte record (length 0x11,
\* complete-128-bit-UUID type) whose 16 value bytes are the bytes of UUID
\* 03B80E5A-EDE8-4B33-A751-6CE34EC4C700 in reversed order, and it is never
\* modified after construction.
C28_AdvContent ==
  /\ [](/\ SubSeq(adv_data, 1, 3) = <<2, 1, 6>>
        /\ SubSeq(adv_data, 4, 5) = <<17, 7>>
        /\ SubSeq(adv_data, 6, Len(adv_data)) = Reversed(BleMidiServiceUuid)
        /\ SubSeq(adv_data, 6, Len(adv_data))
             = <<0, 199, 196, 78, 227, 108, 81, 167, 51, 75, 232, 237, 90, 14, 184, 3>>)
  /\ [][adv_data' = adv_data]_vars

C28_Witness ==
  /\ op = "btstack_event_state"
  /\ arg.working
  /\ rokot_ble_midi_is_connected
  /\ strlen(device_name) = DEVICE_NAME_SIZE - 1
  /\ Dispatched(wire)[2].data = <<2, 1, 6, 17, 7>> \o Reversed(BleMidiServiceUuid)

\* The two client-configuration attributes.
CccdWrite ==
  /\ op' = "att_write"
  /\ arg'.att \in {"BATTERY_CCCD", "MIDI_CCCD"}

\* the events of a step that delivers none or several
Burst == IF op' = "task" THEN arg'.poll \o arg'.wait ELSE <<>>

\* a burst with a link-complete event in it
LinkCompleteInBurst ==
  \E i \in 1..Len(Burst) : Burst[i].kind = "connection_complete"

\* a burst with a write to the attribute att in it
WriteInBurst(att) ==
  \E i \in 1..Len(Burst) : Burst[i].kind = "att_write" /\ Burst[i].att = att

\* C29 as stated: a Connection comes into existence only through a
\* link-complete event; starting from DISCONNECTED no other event or call
\* makes get_state differ from DISCONNECTED or is_connected true.
C29_OnlyLinkComplete ==
  [][(\/ (rokot_ble_midi_get_state = ROKOT_BLE_MIDI_DISCONNECTED
           /\ rokot_ble_midi_get_state' # ROKOT_BLE_MIDI_DISCONNECTED)
      \/ (~rokot_ble_midi_is_connected /\ rokot_ble_midi_is_connected'))
     => (op' = "connection_complete" \/ LinkCompleteInBurst)]_vars

\* C29 (amended): a Connection comes into existence through a link-complete
\* event or through a write to one of the two client-configuration
\* attributes, which records the handle the write arrived on. Starting from
\* DISCONNECTED no other event or call (MIDI value write, read,
\* interval-update event, stack-state event, send, battery or profile
\* setter, callback registration, a poll with nothing to deliver, init,
\* deinit) makes get_state differ from DISCONNECTED or is_connected true; a
\* link-complete event gives CONNECTED, a write enabling the MIDI gate gives
\* READY.
C29_LinkCompleteOrCccd ==
  [][/\ (\/ (rokot_ble_midi_get_state = ROKOT_BLE_MIDI_DISCONNECTED
              /\ rokot_ble_midi_get_state' # ROKOT_BLE_MIDI_DISCONNECTED)
         \/ (~rokot_ble_midi_is_connected /\ rokot_ble_midi_is_connected'))
        => (\/ op' = "connection_complete"
            \/ CccdWrite
            \/ LinkCompleteInBurst
            \/ WriteInBurst("MIDI_CCCD")
            \/ WriteInBurst("BATTERY_CCCD"))
     /\ (rokot_ble_midi_get_state = ROKOT_BLE_MIDI_DISCONNECTED
         /\ op' = "connection_complete")
        => (/\ rokot_ble_midi_get_state' = ROKOT_BLE_MIDI_CONNECTED
            /\ con_handle' = arg'.h)
     /\ (rokot_ble_midi_get_state = ROKOT_BLE_MIDI_DISCONNECTED /\ CccdWrite)
        => (/\ con_handle' = arg'.h
            /\ rokot_ble_midi_get_state' =
                 IF arg'.att = "MIDI_CCCD" /\ cccd_enables(arg'.buffer)
                 THEN ROKOT_BLE_MIDI_READY ELSE ROKOT_BLE_MIDI_CONNECTED)]_vars

\* C29 witness: a MIDI value write was delivered to the initialized library
\* in state DISCONNECTED, reached the application callback, and the state is
\* still DISCONNECTED.
C29_Witness ==
  /\ op = "att_write"
  /\ arg.att = "MIDI_VALUE"
  /\ cbcalls # <<>>
  /\ initialized
  /\ ~rokot_ble_midi_is_connected
  /\ rokot_ble_midi_get_state = ROKOT_BLE_MIDI_DISCONNECTED

\* C30: a notification gate lives only as long as the Connection it was set
\* on: whenever the recorded connection handle changes, no gate that was
\* enabled under the previous handle is still enabled (a gate that the very
\* write that brought the new handle enables is counted as set on the new
\* Connection).
C30_GatesDieWithHandle ==
  [][con_handle' # con_handle =>
       /\ (/\ notifications_enabled
           /\ ~(op' = "att_write" /\ arg'.att = "MIDI_CCCD")
           /\ ~WriteInBurst("MIDI_CCCD"))
            => ~notifications_enabled'
       /\ (/\ battery_notifications_enabled
           /\ ~(op' = "att_write" /\ arg'.att = "BATTERY_CCCD")
           /\ ~WriteInBurst("BATTERY_CCCD"))
            => ~battery_notifications_enabled']_vars

\* C31: every send operation, whatever its outcome, leaves the recorded
\* connection handle, both gates, the connection interval, the battery
\* level, the profile strings and the registered callback unchanged.
C31_SendFrame ==
  [][op' \in SendOps =>
       /\ ret' \in {0, -1, -2, -3}
       /\ UNCHANGED <<con_handle, notifications_enabled, battery_notifications_enabled,
                      connection_interval, battery_level, rx_callback>>
       /\ UNCHANGED <<device_name, manufacturer, firmware_version>>]_vars

\* C31 witness: a send found the transport busy on a READY library whose
\* profile, battery level and callback had all been set by the application.
C31_Witness ==
  /\ op \in SendOps
  /\ ret = -2
  /\ rokot_ble_midi_is_ready
  /\ battery_notifications_enabled
  /\ battery_level = 40
  /\ rx_callback # NULL
  /\ manufacturer # CharArray(ROKOT_BLE_MIDI_MANUFACTURER, MANUFACTURER_SIZE)

\* C32: the Device Profile changes only through its setters: the battery
\* level only in set_battery_level, the manufacturer string only in
\* set_manufacturer, the firmware string only in set_firmware_version; link,
\* interval-update and disconnect events, CCCD writes, inbound writes, reads,
\* sends, init and deinit leave the three values unchanged.
C32_ProfileOnlyBySetters ==
  [][/\ battery_level' # battery_level => op' = "set_battery_level"
     /\ manufacturer' # manufacturer => op' = "set_manufacturer"
     /\ firmware_version' # firmware_version => op' = "set_firmware_version"
     /\ op' \in ({"connection_complete", "connection_update_complete",
                  "disconnection_complete", "att_write", "att_read", "task", "init",
                  "deinit"}
                 \cup SendOps)
          => UNCHANGED <<battery_level, manufacturer, firmware_version>>]_vars

\* C32 witness: the application had set all three profile values, and the
\* initialized library was then shut down; the values are still there.
C32_Witness ==
  /\ op = "deinit"
  /\ Len(wire) = 2
  /\ ~initialized
  /\ battery_level = 40
  /\ manufacturer # CharArray(ROKOT_BLE_MIDI_MANUFACTURER, MANUFACTURER_SIZE)
  /\ firmware_version # CharArray(ROKOT_BLE_MIDI_FIRMWARE_VERSION, FIRMWARE_VERSION_SIZE)

\* The bytes of a write after the two prefix bytes.
Payload(a) == SubSeq(a.buffer, 3, Len(a.buffer))

\* C33: inbound decoding does not depend on the two prefix bytes: two MIDI
\* value writes of the same length that differ only in byte 0 and byte 1
\* cause the same callback invocation with the same arguments, or both cause
\* none.
C33_PrefixIgnored ==
  [][(/\ op = "att_write" /\ arg.att = "MIDI_VALUE"
      /\ op' = "att_write" /\ arg'.att = "MIDI_VALUE"
      /\ arg'.size = arg.size
      /\ Payload(arg') = Payload(arg))
     => cbcalls' = cbcalls]_vars

\* C33 witness: a write whose two prefix bytes both lack the top bit was
\* decoded and reached the callback.
C33_Witness ==
  /\ op = "att_write"
  /\ arg.att = "MIDI_VALUE"
  /\ arg.size = 5
  /\ arg.buffer[1] < 128
  /\ arg.buffer[2] < 128
  /\ cbcalls = <<RxCall("cb1", 144, 60, 100)>>

\* C34: a value write on the MIDI characteristic (with or without a
\* registered callback, in any connection state) and a write to any handle
\* other than the MIDI value, MIDI CCCD and Battery CCCD handles report
\* success and leave the recorded connection handle, both gates, the interval
\* and the Device Profile unchanged; the write to another handle invokes no
\* callback either.
C34_WriteFrame ==
  [][(op' = "att_write" /\ arg'.att \notin {"MIDI_CCCD", "BATTERY_CCCD"}) =>
       /\ answers' = <<Answer(0, <<>>)>>
       /\ UNCHANGED <<con_handle, notifications_enabled, battery_notifications_enabled,
                      connection_interval>>
       /\ UNCHANGED <<battery_level, manufacturer, firmware_version>>
       /\ arg'.att # "MIDI_VALUE" => cbcalls' = <<>>]_vars

\* C34 witness: a write to another handle arrived on a READY library with
\* the Battery gate enabled and a callback registered, and was acknowledged.
C34_Witness ==
  /\ op = "att_write"
  /\ arg.att = "OTHER"
  /\ answers = <<Answer(0, <<>>)>>
  /\ rokot_ble_midi_is_ready
  /\ battery_notifications_enabled
  /\ rx_callback # NULL

\* A MIDI value write without a callback, before any link.
C34_WitnessValue ==
  /\ op = "att_write"
  /\ arg.att = "MIDI_VALUE"
  /\ arg.size >= 5
  /\ rx_callback = NULL
  /\ ~rokot_ble_midi_is_connected
  /\ answers = <<Answer(0, <<>>)>>

\* The number of MIDI bytes a sender hands to send_midi_internal.
MidiLen(o, a) == IF o = "send_raw" THEN a.len ELSE Len(SentMidi(o, a))

\* C35: every BLE-MIDI packet built by a send has length len(midi) + 2,
\* which is 3, 4 or 5 and never exceeds the 32-byte packet buffer, for every
\* sender and every input; a raw send reaches the encoder only with length
\* 1..3.
C35_PacketLength ==
  op \in SendOps =>
    /\ (op = "send_raw" /\ arg.len \notin 1..3) => wire = <<>>
    /\ op \in TypedOps => MidiLen(op, arg) \in {2, 3}
    /\ ValidLength(op, arg) =>
         LET packet == encode_ble_midi_packet(SentMidi(op, arg), MidiLen(op, arg))
         IN /\ Len(packet) = MidiLen(op, arg) + 2
            /\ Len(packet) \in {3, 4, 5}
            /\ Len(packet) <= PACKET_SIZE
    /\ \A i \in 1..Len(MidiNotifies(wire)) :
         /\ Len(MidiNotifies(wire)[i].data) = MidiLen(op, arg) + 2
         /\ Len(MidiNotifies(wire)[i].data) \in {3, 4, 5}
         /\ Len(MidiNotifies(wire)[i].data) <= PACKET_SIZE

\* C35 witness: a raw send of one byte was notified as a 3-byte packet.
C35_Witness ==
  /\ op = "send_raw"
  /\ arg.len = 1
  /\ ret = 0
  /\ Len(MidiNotifies(wire)) = 1
  /\ Len(MidiNotifies(wire)[1].data) = 3

\* A typed send of three MIDI bytes was notified as a 5-byte packet.
C35_WitnessTyped ==
  /\ op = "control_change"
  /\ ret = 0
  /\ Len(MidiNotifies(wire)) = 1
  /\ Len(MidiNotifies(wire)[1].data) = 5

\* C36: for every int16 pitch-bend value v, including values outside
\* -8192..8191, the Pitch Bend sender is not rejected and emits
\* LSB = b mod 128 and MSB = (b div 128) mod 128 where b = (v + 8192) mod
\* 65536; out-of-range values wrap modulo 16384 instead of saturating.
C36_PitchBendWraps ==
  op = "pitch_bend" =>
    LET b == (arg.value + 8192) % 65536
    IN /\ ret = (IF ~arg.t[1] THEN -2 ELSE IF arg.t[2] = 0 THEN 0 ELSE -3)
       /\ Len(MidiNotifies(wire)) = (IF arg.t[1] THEN 1 ELSE 0)
       /\ \A i \in 1..Len(MidiNotifies(wire)) :
            LET d == MidiNotifies(wire)[i].data
            IN /\ Len(d) = 5
               /\ d[3] = MIDI_PITCH_BEND + (arg.channel % 16)
               /\ d[4] = b % 128
               /\ d[5] = (b \div 128) % 128
               /\ d[4] + 128 * d[5] = (arg.value + 8192) % 16384

\* C36 witness: the value one above the range was sent and went out as the
\* lowest bend (0, 0), not as the highest (127, 127).
C36_Witness ==
  /\ op = "pitch_bend"
  /\ arg.value = 8192
  /\ ret = 0
  /\ Len(MidiNotifies(wire)) = 1
  /\ SubSeq(MidiNotifies(wire)[1].data, 4, 5) = <<0, 0>>

====
